---- MODULE Spec2Model ----
(***************************************************************************)
(* knoxite: multi-backend chunk placement (backendmanager.go), the dropbox *)
(* backend (storage_dropbox.go), the read transform and archive reader     *)
(* (decode.go, src/unnamed/part_001) and the store command (store.go,      *)
(* src/unnamed/part_000).                                                  *)
(***************************************************************************)
EXTENDS Integers, Sequences, FiniteSets, Bags, TLC

VARIABLES
    nb,        \* len(BackendManager.Backends)
    up,        \* indices of the backends that answer (the others return errors)
    blobs,     \* blobs[b]: chunk-shard blobs of backend b, key -> bytes
    meta,      \* meta[b]: repository areas, repository blob, snapshot blobs of backend b
    cursor,    \* BackendManager.lastUsedBackend
    placed,    \* history: placed[b] = shards routed to backend b since the list last changed
    stored,    \* history: chunk records whose StoreChunk returned nil, with targets
    calls,     \* history: number of StoreChunk calls made
    cmd,       \* state of the store command: options, pipeline started or not
    last,      \* result of the last Backend Manager or command call (reset by environment steps)
    arc,       \* the archive entry (ItemData) the reader works on
    cache,     \* the process-wide chunk cache: sha_sum -> plaintext
    mutex,     \* TRUE while the cache mutex is locked
    rd,        \* the ReadArchive / DecodeArchiveData call of the user: position, locals
    tasks,     \* bag of the chunk numbers of the read-ahead goroutines not started yet
    snap,      \* the snapshot DecodeSnapshot restores: its items in order
    fsys,      \* the local filesystem under dst: path -> kind, bytes, mtime and owner set
    rst,       \* the goroutine of DecodeSnapshot: position, local variables, history
    callers,   \* callers[g]: the readArchiveChunk call of goroutine g (0: the user's)
    loads      \* history: sha_sum -> number of loadChunk calls that returned it without error

readerVars == <<arc, cache, mutex, rd, tasks>>

restoreVars == <<snap, fsys, rst>>

lockVars == <<callers, loads>>

vars == <<nb, up, blobs, meta, cursor, placed, stored, calls, cmd, last, readerVars,
         restoreVars, lockVars>>

----------------------------------------------------------------------------
\* Bounds of the model.
MaxBackends == 2     \* backends 0 .. MaxBackends
MaxTolerance == 3    \* FailureTolerance 0 .. MaxTolerance
MaxLen == 1          \* plaintext length 1 .. MaxLen of the writer and of the archive reader
LoadLen == 2         \* plaintext length 1 .. LoadLen in the read-transform specification
MaxByte == 1         \* plaintext bytes 0 .. MaxByte in the read-transform specification
MaxData == 2         \* data_parts 1 .. MaxData in the read-transform specification
MaxParity == 2       \* parity_parts 0 .. MaxParity in the read-transform specification
MaxCalls == 2        \* StoreChunk calls per run
MaxTasks == 2        \* ReadArchive is called with fewer than MaxTasks read-ahead goroutines alive

----------------------------------------------------------------------------
\* Bytes and unsigned integers.

\* The erasure code works over a finite field; the model takes the prime field
\* of FieldP elements in place of GF(2^8), so a stored "byte" is in 0..FieldP-1.
FieldP == 257

Fp(a) == ((a % FieldP) + FieldP) % FieldP

RECURSIVE PowMod(_, _)
PowMod(a, e) ==
    IF e = 0 THEN 1
    ELSE LET h == PowMod(a, e \div 2)
         IN IF e % 2 = 0 THEN Fp(h * h) ELSE Fp(Fp(h * h) * a)

Inv(a) == PowMod(Fp(a), FieldP - 2)

\* Go's uint is 64 bits wide: a value is four 16-bit limbs, most significant first.
LimbBase == 65536

ToUint(n) == << 0, 0, (n \div LimbBase) % LimbBase, n % LimbBase >>

UintZero == ToUint(0)

\* a - b in uint arithmetic (wraps around below zero).
USub(a, b) ==
    LET d4 == a[4] - b[4]
        w4 == IF d4 < 0 THEN 1 ELSE 0
        d3 == a[3] - b[3] - w4
        w3 == IF d3 < 0 THEN 1 ELSE 0
        d2 == a[2] - b[2] - w3
        w2 == IF d2 < 0 THEN 1 ELSE 0
        d1 == a[1] - b[1] - w2
    IN << (d1 + LimbBase) % LimbBase, (d2 + LimbBase) % LimbBase,
          (d3 + LimbBase) % LimbBase, (d4 + LimbBase) % LimbBase >>

\* uint <= 0
ULeqZero(a) == a = UintZero

\* A uint that fits the model's small numbers, as a number; -1 otherwise.
UintSmall(a) == IF a[1] = 0 /\ a[2] = 0 /\ a[3] = 0 THEN a[4] ELSE -1

RECURSIVE SumLen(_, _)
SumLen(f, n) == IF n = 0 THEN 0 ELSE Len(f[n - 1]) + SumLen(f, n - 1)

RECURSIVE Concat(_, _)
Concat(f, n) == IF n = 0 THEN << >> ELSE Concat(f, n - 1) \o f[n - 1]

RECURSIVE FirstK(_, _)
FirstK(S, k) ==
    IF k = 0 \/ S = {} THEN {}
    ELSE LET m == CHOOSE x \in S : \A y \in S : x <= y
         IN {m} \cup FirstK(S \ {m}, k - 1)

Zeros(n) == [i \in 1..n |-> 0]

----------------------------------------------------------------------------
\* Reed-Solomon codec (github.com/klauspost/reedsolomon), as a systematic
\* polynomial code: shard i holds the value at point i of the polynomial of
\* degree < d through the d data shards.

RECURSIVE Basis(_, _, _)
Basis(S, i, x) ==
    IF S = {} THEN 1
    ELSE LET j == CHOOSE k \in S : TRUE
         IN Fp(Fp(Fp(x - j) * Inv(i - j)) * Basis(S \ {j}, i, x))

RECURSIVE Interp(_, _, _, _)
Interp(T, xs, y, x) ==
    IF T = {} THEN 0
    ELSE LET i == CHOOSE k \in T : TRUE
         IN Fp(Fp(y[i] * Basis(xs \ {i}, i, x)) + Interp(T \ {i}, xs, y, x))

\* The shard at point x, from the shards at the points xs.
ShardAt(sh, xs, size, x) ==
    [j \in 1..size |-> Interp(xs, xs, [k \in xs |-> sh[k][j]], x)]

\* enc.Split followed by enc.Encode.
RsSplit(data, d, p) ==
    LET per    == (Len(data) + d - 1) \div d
        padded == data \o Zeros(d * per - Len(data))
        ds     == [i \in 0..(d - 1) |-> SubSeq(padded, i * per + 1, (i + 1) * per)]
    IN [i \in 0..(d + p - 1) |->
           IF i < d THEN ds[i] ELSE ShardAt(ds, 0..(d - 1), per, i)]

\* enc.Reconstruct: shards of length 0 are the missing ones.
RsReconstruct(sh, d, p) ==
    LET all  == 0..(d + p - 1)
        ne   == {i \in all : Len(sh[i]) > 0}
        size == IF ne = {} THEN 0
                ELSE Len(sh[CHOOSE i \in ne : \A k \in ne : i <= k])
    IN IF ne = {} THEN [err |-> "ErrShardNoData", shards |-> sh]
       ELSE IF \E i \in ne : Len(sh[i]) # size
            THEN [err |-> "ErrShardSize", shards |-> sh]
       ELSE IF ne = all THEN [err |-> "nil", shards |-> sh]
       ELSE IF Cardinality(ne) < d THEN [err |-> "ErrTooFewShards", shards |-> sh]
       ELSE LET xs == FirstK(ne, d)
                dt == [i \in 0..(d - 1) |->
                          IF i \in ne THEN sh[i] ELSE ShardAt(sh, xs, size, i)]
            IN [err |-> "nil",
                shards |-> [i \in all |->
                               IF i \in ne THEN sh[i]
                               ELSE IF i < d THEN dt[i]
                               ELSE ShardAt(dt, 0..(d - 1), size, i)]]

\* enc.Join: the first outSize bytes of the data shards.
RsJoin(sh, d, outSize) ==
    IF SumLen(sh, d) < outSize THEN [err |-> "ErrShortData", data |-> << >>]
    ELSE [err |-> "nil", data |-> SubSeq(Concat(sh, d), 1, outSize)]

RsMaxShards == 256

\* reedsolomon.New
RsNew(d, p) ==
    IF d <= 0 \/ p <= 0 THEN "ErrInvShardNum"
    ELSE IF d + p > RsMaxShards THEN "ErrMaxShardNum"
    ELSE "nil"

----------------------------------------------------------------------------
\* Hashing, compression, encryption.

\* hex(sha256(P)): collision-free, so the digest stands for the bytes hashed.
sha256hex(P) == [sha256 |-> P]

GzMagic == 31

RECURSIVE SumBytes(_)
SumBytes(s) == IF s = << >> THEN 0 ELSE Fp(Head(s) + SumBytes(Tail(s)))

\* gzip stream: magic byte, the payload, a checksum trailer.
Gzip(P) == << GzMagic >> \o P \o << SumBytes(P) >>

\* gzip.NewReader + ioutil.ReadAll
Gunzip(data) ==
    IF Len(data) < 2 \/ data[1] # GzMagic
    THEN [err |-> "GzipHeaderError", data |-> << >>]
    ELSE LET body == SubSeq(data, 2, Len(data) - 1)
         IN IF data[Len(data)] # SumBytes(body)
            THEN [err |-> "GzipChecksumError", data |-> << >>]
            ELSE [err |-> "nil", data |-> body]

AesIv == 7
IvLen == 1

\* Encrypt: the IV followed by the bytes shifted by the key stream.
Encrypt(P) == << AesIv >> \o [i \in 1..Len(P) |-> Fp(P[i] + AesIv)]

\* Decrypt: fails on a ciphertext shorter than the IV; no authentication.
Decrypt(data) ==
    IF Len(data) < IvLen THEN [err |-> "CiphertextTooShort", data |-> << >>]
    ELSE [err |-> "nil",
          data |-> [i \in 1..(Len(data) - IvLen) |-> Fp(data[i + IvLen] - data[1])]]

----------------------------------------------------------------------------
\* Chunk records and the write transform.

NoSum == [sha256 |-> << -1 >>]

\* The write transform of the chunk pipeline: hash, compress, encrypt, split.
EncodeChunk(P, gz, aes, d, p, num) ==
    LET zipped  == IF gz THEN Gzip(P) ELSE P
        payload == IF aes THEN Encrypt(zipped) ELSE zipped
    IN [Num |-> num,
        OriginalSize |-> Len(P),
        Size |-> Len(payload),
        ShaSum |-> sha256hex(P),
        DecryptedShaSum |-> sha256hex(P),
        Compressed |-> IF gz THEN "GZip" ELSE "None",
        Encrypted |-> IF aes THEN "AES" ELSE "None",
        DataParts |-> d,
        ParityParts |-> p,
        Data |-> IF p > 0 THEN RsSplit(payload, d, p) ELSE [i \in {0} |-> payload]]

\* len(*chunk.Data)
NumShards(chunk) == Cardinality(DOMAIN chunk.Data)

\* The plaintexts of the read-transform specification: one of each length, its
\* bytes running through 1, .., MaxByte, 0.
Plaintexts == {[i \in 1..n |-> i % (MaxByte + 1)] : n \in 1..LoadLen}

----------------------------------------------------------------------------
\* One storage backend (StorageDropbox).

\* File name of a shard: <shasum>.<part>_<totalParts> under chunks/<shasum[0:2]>.
ShardPath(shasum, part, totalParts) ==
    [name |-> shasum, part |-> part, total |-> totalParts]

Put(f, k, v) == [x \in DOMAIN f \cup {k} |-> IF x = k THEN v ELSE f[x]]

NoBlobs == [x \in {} |-> << >>]

\* StorageDropbox.LoadChunk on the blobs bl of a backend; isUp: it answers.
BackendLoadChunk(bl, isUp, shasum, part, totalParts) ==
    LET fileName == ShardPath(shasum, part, totalParts)
    IN IF isUp /\ fileName \in DOMAIN bl
       THEN [err |-> "nil", data |-> bl[fileName]]
       ELSE [err |-> "DownloadError", data |-> << >>]

\* A backend that writes the shard without looking for an existing blob.
BackendStoreChunkAlways(bl, isUp, entry, shasum, part, totalParts, data) ==
    IF ~isUp THEN [err |-> IF entry THEN "UploadError"
                           ELSE "panic: nil pointer dereference",
                   size |-> 0, blobs |-> bl, folder |-> FALSE]
    ELSE [err |-> "nil", size |-> Len(data),
          blobs |-> Put(bl, ShardPath(shasum, part, totalParts), data), folder |-> TRUE]

\* StorageDropbox.StoreChunk: CreateFolder of the chunk's folder (its result is
\* dropped), then skip the upload when a blob of the same length is there.
\* folder: the CreateFolder call reached the service, so that the root and
\* the chunks area exist on the backend afterwards. entry: an UploadByChunk
\* that fails hands back an Entry next to its error; when it hands back nil,
\* `return uint64(entry.Bytes), err` dereferences nil and the process panics.
BackendStoreChunk(bl, isUp, entry, shasum, part, totalParts, data) ==
    LET fileName == ShardPath(shasum, part, totalParts)
    IN IF isUp /\ fileName \in DOMAIN bl /\ Len(bl[fileName]) = Len(data)
       THEN [err |-> "nil", size |-> 0, blobs |-> bl, folder |-> TRUE]
       ELSE IF ~isUp THEN [err |-> IF entry THEN "UploadError"
                                   ELSE "panic: nil pointer dereference",
                           size |-> 0, blobs |-> bl, folder |-> FALSE]
       ELSE [err |-> "nil", size |-> Len(data), blobs |-> Put(bl, fileName, data),
             folder |-> TRUE]

NoMeta == [root |-> FALSE, snapshots |-> FALSE, chunks |-> FALSE,
           repo |-> << -1 >>, snaps |-> [x \in {} |-> << >>]]

NoRepo == << -1 >>

\* The areas of the backends after StoreChunk created the chunk folders on the
\* backends in made: the root and the chunks area exist there.
WithChunkFolders(ms, made) ==
    [b \in DOMAIN ms |-> IF b \in made THEN [ms[b] EXCEPT !.root = TRUE, !.chunks = TRUE]
                         ELSE ms[b]]

----------------------------------------------------------------------------
\* BackendManager (backendmanager.go).

Backends(n) == 0..(n - 1)

\* First-success fan-out over the backends in list order; res[b] is what
\* backend b answers. asked: the backends called, in order.
RECURSIVE FirstSuccessLast(_, _, _, _)
FirstSuccessLast(res, n, i, failed) ==
    IF i >= n THEN [err |-> failed, data |-> << >>, asked |-> [k \in 1..n |-> k - 1]]
    ELSE LET rest == FirstSuccessLast(res, n, i + 1, failed)
         IN IF rest.err = "nil" THEN rest
            ELSE IF res[i].err = "nil"
                 THEN [err |-> "nil", data |-> res[i].data,
                       asked |-> [k \in 1..n |-> k - 1]]
            ELSE rest

RECURSIVE FirstSuccess(_, _, _, _)
FirstSuccess(res, n, i, failed) ==
    IF i >= n THEN [err |-> failed, data |-> << >>, asked |-> [k \in 1..n |-> k - 1]]
    ELSE IF res[i].err = "nil"
         THEN [err |-> "nil", data |-> res[i].data, asked |-> [k \in 1..(i + 1) |-> k - 1]]
    ELSE FirstSuccess(res, n, i + 1, failed)

\* BackendManager.LoadChunk
LoadChunk(bl, u, n, chunk, part) ==
    FirstSuccess([b \in Backends(n) |->
                     BackendLoadChunk(bl[b], b \in u, chunk.ShaSum, part, chunk.DataParts)],
                 n, 0, "ErrLoadChunkFailed")

\* The round-robin step of StoreChunk with the bound taken as > len(Backends).
NextBackendOffByOne(c, n) == IF c + 1 > n THEN 0 ELSE c + 1

\* The round-robin step of StoreChunk without the increment of the cursor.
NextBackendStuck(c, n) == IF c + 1 > n THEN 0 ELSE c

\* backend.lastUsedBackend++; if backend.lastUsedBackend+1 > len(backend.Backends) { = 0 }
NextBackend(c, n) == IF (c + 1) + 1 > n THEN 0 ELSE c + 1

\* The loop of BackendManager.StoreChunk from shard i on. st: the cursor, the
\* blobs, the placements counted, the backend and stored size of each shard,
\* the backends on which a chunk folder was created. entry: what a failed
\* upload hands back (see BackendStoreChunk).
RECURSIVE StoreLoop(_, _, _, _, _, _)
StoreLoop(chunk, u, entry, n, i, st) ==
    IF i >= NumShards(chunk)
    THEN [st EXCEPT !.err = "nil", !.size = chunk.Size]
    ELSE LET c == NextBackend(st.cursor, n)
         IN IF c \notin Backends(n)
            THEN [st EXCEPT !.err = "panic: index out of range", !.cursor = c]
            ELSE LET r == BackendStoreChunk(st.blobs[c], c \in u, entry, chunk.ShaSum,
                                            i, chunk.DataParts, chunk.Data[i])
                     st1 == [st EXCEPT !.cursor = c,
                                       !.blobs = [@ EXCEPT ![c] = r.blobs],
                                       !.placed = [@ EXCEPT ![c] = @ + 1],
                                       !.targets = Append(@, c),
                                       !.sizes = Append(@, r.size),
                                       !.made = IF r.folder THEN @ \cup {c} ELSE @]
                 IN IF r.err # "nil"
                    THEN [st1 EXCEPT !.err = r.err, !.size = 0]
                    ELSE StoreLoop(chunk, u, entry, n, i + 1, st1)

\* BackendManager.StoreChunk
StoreChunk(bl, u, entry, n, c, pl, chunk) ==
    StoreLoop(chunk, u, entry, n, 0,
              [err |-> "nil", size |-> 0, cursor |-> c, blobs |-> bl, placed |-> pl,
               targets |-> << >>, sizes |-> << >>, made |-> {}])

\* StorageDropbox.LoadSnapshot
BackendLoadSnapshot(m, isUp, id) ==
    IF isUp /\ id \in DOMAIN m.snaps
    THEN [err |-> "nil", data |-> m.snaps[id]]
    ELSE [err |-> "DownloadError", data |-> << >>]

\* StorageDropbox.SaveSnapshot: the upload to <root>/snapshots/<id>; with the
\* file there, the root and the snapshots area exist on the backend.
BackendSaveSnapshot(m, isUp, id, data) ==
    IF isUp THEN [err |-> "nil",
                  meta |-> [m EXCEPT !.snaps = Put(@, id, data), !.root = TRUE,
                                     !.snapshots = TRUE]]
    ELSE [err |-> "UploadError", meta |-> m]

\* StorageDropbox.LoadRepository
BackendLoadRepository(m, isUp) ==
    IF isUp /\ m.repo # NoRepo
    THEN [err |-> "nil", data |-> m.repo]
    ELSE [err |-> "DownloadError", data |-> << >>]

\* StorageDropbox.SaveRepository: the upload to <root>/<repoFilename>; with the
\* file there, the root exists on the backend.
BackendSaveRepository(m, isUp, data) ==
    IF isUp THEN [err |-> "nil", meta |-> [m EXCEPT !.repo = data, !.root = TRUE]]
    ELSE [err |-> "UploadError", meta |-> m]

\* StorageDropbox.InitRepository: CreateFolder of the root, of the snapshots
\* area, of the chunks area; CreateFolder fails on a folder that exists.
BackendInitRepository(m, isUp) ==
    IF ~isUp \/ m.root THEN [err |-> "ErrRepositoryExists", meta |-> m]
    ELSE IF m.snapshots
         THEN [err |-> "ErrRepositoryExists", meta |-> [m EXCEPT !.root = TRUE]]
    ELSE IF m.chunks
         THEN [err |-> "ErrRepositoryExists",
               meta |-> [m EXCEPT !.root = TRUE, !.snapshots = TRUE]]
    ELSE [err |-> "nil",
          meta |-> [m EXCEPT !.root = TRUE, !.snapshots = TRUE, !.chunks = TRUE]]

\* A fan-out that calls every backend and reports the first error afterwards.
AllInOrderNoAbort(ms, res, n) ==
    LET bad == {b \in Backends(n) : res[b].err # "nil"}
    IN [err |-> IF bad = {} THEN "nil"
                ELSE res[CHOOSE b \in bad : \A k \in bad : b <= k].err,
        metas |-> [b \in Backends(n) |-> res[b].meta],
        called |-> [k \in 1..n |-> k - 1]]

\* Fan-out to all backends in list order, aborting at the first error:
\* res[b] is what the call on backend b returns and leaves behind.
AllInOrder(ms, res, n) ==
    LET bad == {b \in Backends(n) : res[b].err # "nil"}
        j   == IF bad = {} THEN n ELSE CHOOSE b \in bad : \A k \in bad : b <= k
    IN [err |-> IF j = n THEN "nil" ELSE res[j].err,
        metas |-> [b \in Backends(n) |-> IF b <= j THEN res[b].meta ELSE ms[b]],
        called |-> [k \in 1..(IF j = n THEN n ELSE j + 1) |-> k - 1]]

\* BackendManager.LoadSnapshot
LoadSnapshot(ms, u, n, id) ==
    FirstSuccess([b \in Backends(n) |-> BackendLoadSnapshot(ms[b], b \in u, id)],
                 n, 0, "ErrLoadSnapshotFailed")

\* BackendManager.SaveSnapshot
SaveSnapshot(ms, u, n, id, data) ==
    AllInOrder(ms, [b \in Backends(n) |-> BackendSaveSnapshot(ms[b], b \in u, id, data)], n)

\* BackendManager.InitRepository
InitRepository(ms, u, n) ==
    AllInOrder(ms, [b \in Backends(n) |-> BackendInitRepository(ms[b], b \in u)], n)

\* BackendManager.LoadRepository
LoadRepository(ms, u, n) ==
    FirstSuccess([b \in Backends(n) |-> BackendLoadRepository(ms[b], b \in u)],
                 n, 0, "ErrLoadRepositoryFailed")

\* BackendManager.SaveRepository
SaveRepository(ms, u, n, data) ==
    AllInOrder(ms, [b \in Backends(n) |-> BackendSaveRepository(ms[b], b \in u, data)], n)

----------------------------------------------------------------------------
\* The read transform (decode.go).

DecodeErr(e) == [err |-> e, data |-> << >>, expected |-> NoSum, found |-> NoSum]

\* decodeChunk without the comparison of the SHA-256 sums.
decodeChunkUnchecked(chunk, finalData) ==
    LET dec == IF chunk.Encrypted = "AES" THEN Decrypt(finalData)
               ELSE [err |-> "nil", data |-> finalData]
    IN IF dec.err # "nil" THEN DecodeErr(dec.err)
       ELSE LET unz == IF chunk.Compressed = "GZip" THEN Gunzip(dec.data)
                       ELSE [err |-> "nil", data |-> dec.data]
            IN IF unz.err # "nil" THEN DecodeErr(unz.err)
               ELSE [err |-> "nil", data |-> unz.data,
                     expected |-> chunk.DecryptedShaSum, found |-> sha256hex(unz.data)]

\* decodeChunk
decodeChunk(chunk, finalData) ==
    LET dec == IF chunk.Encrypted = "AES" THEN Decrypt(finalData)
               ELSE [err |-> "nil", data |-> finalData]
    IN IF dec.err # "nil" THEN DecodeErr(dec.err)
       ELSE LET unz == IF chunk.Compressed = "GZip" THEN Gunzip(dec.data)
                       ELSE [err |-> "nil", data |-> dec.data]
            IN IF unz.err # "nil" THEN DecodeErr(unz.err)
               ELSE LET shasum == sha256hex(unz.data)
                    IN IF chunk.DecryptedShaSum # shasum
                       THEN [err |-> "CheckSumError", data |-> << >>,
                             expected |-> chunk.DecryptedShaSum, found |-> shasum]
                       ELSE [err |-> "nil", data |-> unz.data,
                             expected |-> chunk.DecryptedShaSum, found |-> shasum]

\* What loadChunk returns, with the trace of the call: asked = shards fetched,
\* rebuilt = Reconstruct calls that succeeded, joined = the payload Join gave.
LoadResult(r, found, failed, asked, rebuilt, joined) ==
    [err |-> r.err, data |-> r.data, expected |-> r.expected, found |-> r.found,
     blocksFound |-> found, failedBackends |-> failed, asked |-> asked,
     rebuilt |-> rebuilt, joined |-> joined]

NotJoined == << -1 >>

\* if parsFound > chunk.DataParts: one shard more than needed.
EnoughShardsStrict(parsFound, dataParts) == parsFound > dataParts

\* if parsFound >= chunk.DataParts
EnoughShards(parsFound, dataParts) == parsFound >= dataParts

\* The shard loop of loadChunk from shard i on.
RECURSIVE loadLoop(_, _, _, _, _, _, _, _)
loadLoop(bl, u, n, chunk, i, pars, parsFound, parsMissing) ==
    LET d == chunk.DataParts
        p == chunk.ParityParts
    IN IF i >= d + p
       THEN LoadResult(DecodeErr("DataReconstructionError"), parsFound,
                       USub(ToUint(d), ToUint(parsFound)), i, 0, NotJoined)
       ELSE LET ld == LoadChunk(bl, u, n, chunk, i)
            IN IF ld.err # "nil"
               THEN loadLoop(bl, u, n, chunk, i + 1, [pars EXCEPT ![i] = << >>],
                             parsFound, parsMissing + 1)
               ELSE LET pars1 == [pars EXCEPT ![i] = ld.data]
                        found1 == parsFound + 1
                    IN IF EnoughShards(found1, d)
                       THEN LET rec == IF parsMissing > 0 THEN RsReconstruct(pars1, d, p)
                                       ELSE [err |-> "nil", shards |-> pars1]
                                jn  == RsJoin(rec.shards, d, chunk.Size)
                            IN IF rec.err # "nil"
                               THEN loadLoop(bl, u, n, chunk, i + 1, pars1, found1,
                                             parsMissing)
                               ELSE IF jn.err # "nil"
                                    THEN loadLoop(bl, u, n, chunk, i + 1, rec.shards,
                                                  found1, parsMissing)
                               ELSE LoadResult(decodeChunk(chunk, jn.data), found1,
                                               UintZero, i + 1,
                                               IF parsMissing > 0 THEN 1 ELSE 0, jn.data)
                       ELSE loadLoop(bl, u, n, chunk, i + 1, pars1, found1, parsMissing)

\* loadChunk
loadChunk(bl, u, n, chunk) ==
    IF chunk.ParityParts > 0
    THEN IF RsNew(chunk.DataParts, chunk.ParityParts) # "nil"
         THEN LoadResult(DecodeErr(RsNew(chunk.DataParts, chunk.ParityParts)),
                         0, UintZero, 0, 0, NotJoined)
         ELSE loadLoop(bl, u, n, chunk, 0,
                       [i \in 0..(chunk.DataParts + chunk.ParityParts - 1) |-> << >>], 0, 0)
    ELSE LET ld == LoadChunk(bl, u, n, chunk, 0)
         IN IF ld.err # "nil"
            THEN LoadResult(DecodeErr(ld.err), 0, UintZero, 1, 0, NotJoined)
            ELSE LoadResult(decodeChunk(chunk, ld.data), 1, UintZero, 1, 0, ld.data)

----------------------------------------------------------------------------
\* The store command (store.go).

\* CmdStore.store up to the call of snapshot.Add: n backends, FailureTolerance t,
\* wd: os.Getwd() succeeds. dataParts and parityParts are what it hands to
\* snapshot.Add.
store(n, t, wd) ==
    IF ~wd
    THEN [err |-> "GetwdError", started |-> FALSE,
          dataParts |-> UintZero, parityParts |-> 0]
    ELSE IF ULeqZero(USub(ToUint(n), ToUint(t)))
    THEN [err |-> "ErrRedundancyAmount", started |-> FALSE,
          dataParts |-> UintZero, parityParts |-> 0]
    ELSE [err |-> "nil", started |-> TRUE,
          dataParts |-> USub(ToUint(n), ToUint(t)), parityParts |-> t]

----------------------------------------------------------------------------
\* State machine: one repository opened on nb backends, one store command,
\* chunks stored and loaded through the Backend Manager.

NoOp == [op |-> "none"]

\* An ItemData that is no file, and the reader before its first call.
NoArchive == [Type |-> "Directory", Chunks |-> << >>]

IdleRead == [pc |-> "idle", offset |-> 0, size |-> 0, neededPart |-> 0,
             internalOffset |-> 0, dat |-> << >>, final |-> << >>, err |-> "nil"]

NoCache == [x \in {} |-> << >>]

\* The restore goroutine before DecodeSnapshot is called, with no snapshot.
IdleRestore == [pc |-> "idle", item |-> 0, i |-> 0, pos |-> 0, data |-> << >>,
                trace |-> << >>, results |-> << >>, received |-> 0, closed |-> FALSE,
                ret |-> "none"]

NoFiles == [x \in {} |-> << >>]

\* No goroutine calls readArchiveChunk, nothing was loaded.
NoCallers == [x \in {} |-> << >>]

NoLoads == [x \in {} |-> 0]

ReaderIdle(a) ==
    /\ arc = a
    /\ cache = NoCache
    /\ mutex = FALSE
    /\ rd = IdleRead
    /\ tasks = EmptyBag
    /\ snap = << >>
    /\ fsys = NoFiles
    /\ rst = IdleRestore
    /\ callers = NoCallers
    /\ loads = NoLoads

EnvOp == [op |-> "env"]
IdleCmd == [state |-> "idle", tolerance |-> 0, dataParts |-> UintZero, parityParts |-> 0,
            gz |-> FALSE, aes |-> FALSE]

\* The plaintexts the writer forms chunks from.
StorePlaintexts == {[i \in 1..n |-> 0] : n \in 1..MaxLen}

Opened(n) ==
    /\ nb = n
    /\ up = Backends(n)
    /\ blobs = [b \in Backends(n) |-> NoBlobs]
    /\ meta = [b \in Backends(n) |-> NoMeta]
    /\ cursor = 0
    /\ placed = [b \in Backends(n) |-> 0]
    /\ stored = {}
    /\ calls = 0
    /\ cmd = IdleCmd
    /\ last = NoOp
    /\ ReaderIdle(NoArchive)

Init == \E n \in 0..MaxBackends : Opened(n)

\* CmdStore.store with the options of the command line; wd: os.Getwd() succeeds.
Store(t, gz, aes, wd) ==
    /\ cmd.state = "idle"
    /\ LET r == store(nb, t, wd)
       IN /\ cmd' = [state |-> IF r.started THEN "started" ELSE "refused",
                     tolerance |-> t, dataParts |-> r.dataParts,
                     parityParts |-> r.parityParts, gz |-> gz, aes |-> aes]
          /\ last' = [op |-> "store", err |-> r.err, backends |-> nb, tolerance |-> t,
                      wd |-> wd]
    /\ UNCHANGED <<nb, up, blobs, meta, cursor, placed, stored, calls, readerVars, restoreVars, lockVars>>

\* The effect of BackendManager.StoreChunk(chunk) on the state.
DoStoreChunk(chunk) ==
    \E entry \in BOOLEAN :
    LET r == StoreChunk(blobs, up, entry, nb, cursor, placed, chunk)
    IN /\ blobs' = r.blobs
       /\ meta' = WithChunkFolders(meta, r.made)
       /\ cursor' = r.cursor
       /\ placed' = r.placed
       /\ calls' = calls + 1
       /\ stored' = IF r.err = "nil"
                    THEN stored \cup {[chunk |-> chunk, targets |-> r.targets]}
                    ELSE stored
       /\ last' = [op |-> "StoreChunk", err |-> r.err, size |-> r.size, chunk |-> chunk,
                   targets |-> r.targets, sizes |-> r.sizes, before |-> blobs,
                   cursorBefore |-> cursor]

\* A panic of StoreChunk.
Panics == {"panic: index out of range", "panic: nil pointer dereference"}

\* The pipeline started by store forms the next chunk and stores it; a panic
\* of StoreChunk ends the command.
AddChunk(P) ==
    /\ cmd.state = "started"
    /\ UintSmall(cmd.dataParts) >= 1
    /\ calls < MaxCalls
    /\ DoStoreChunk(EncodeChunk(P, cmd.gz, cmd.aes, UintSmall(cmd.dataParts),
                                cmd.parityParts, calls))
    /\ cmd' = IF last'.err \in Panics THEN [cmd EXCEPT !.state = "panic"] ELSE cmd
    /\ UNCHANGED <<nb, up, readerVars, restoreVars, lockVars>>

\* A backend stops answering / answers again.
BackendDown(b) ==
    /\ b \in up
    /\ up' = up \ {b}
    /\ last' = EnvOp
    /\ UNCHANGED <<nb, blobs, meta, cursor, placed, stored, calls, cmd, readerVars, restoreVars, lockVars>>

BackendUp(b) ==
    /\ b \in Backends(nb) \ up
    /\ up' = up \cup {b}
    /\ last' = EnvOp
    /\ UNCHANGED <<nb, blobs, meta, cursor, placed, stored, calls, cmd, readerVars, restoreVars, lockVars>>

\* BackendManager.AddBackend(be) while the list holds fewer than limit
\* backends: the backend is appended to the list; it answers and holds nothing
\* yet. placed counts the shards routed to each backend since the list last
\* changed.
AddBackend(limit) ==
    /\ nb < limit
    /\ nb' = nb + 1
    /\ up' = up \cup {nb}
    /\ blobs' = [b \in Backends(nb + 1) |-> IF b < nb THEN blobs[b] ELSE NoBlobs]
    /\ meta' = [b \in Backends(nb + 1) |-> IF b < nb THEN meta[b] ELSE NoMeta]
    /\ placed' = [b \in Backends(nb + 1) |-> 0]
    /\ last' = [op |-> "AddBackend"]
    /\ UNCHANGED <<cursor, stored, calls, cmd, readerVars, restoreVars, lockVars>>

\* loadChunk of a stored chunk.
ReadChunk(s) ==
    /\ s \in stored
    /\ last' = [op |-> "loadChunk", chunk |-> s.chunk,
                res |-> loadChunk(blobs, up, nb, s.chunk)]
    /\ UNCHANGED <<nb, up, blobs, meta, cursor, placed, stored, calls, cmd, readerVars, restoreVars, lockVars>>

Next ==
    \/ \E t \in 0..MaxTolerance, gz \in BOOLEAN, aes \in BOOLEAN, wd \in BOOLEAN :
           Store(t, gz, aes, wd)
    \/ \E P \in StorePlaintexts : AddChunk(P)
    \/ \E b \in Backends(nb) : BackendDown(b)
    \/ \E b \in Backends(nb) : BackendUp(b)
    \/ \E s \in stored : ReadChunk(s)
    \/ AddBackend(MaxBackends)

Spec == Init /\ [][Next]_vars

----------------------------------------------------------------------------
\* Claims checked under Spec.

\* C3 (as claimed): store, with a working directory to start from, returns
\* RedundancyAmount, without starting the pipeline, exactly when
\* failure_tolerance >= number of backends.
C3_RedundancyForEveryToleranceAtLeastN ==
    (last.op = "store" /\ last.wd) =>
        /\ (last.tolerance >= last.backends) =>
               (last.err = "ErrRedundancyAmount" /\ cmd.state = "refused")
        /\ (last.tolerance < last.backends) =>
               (last.err = "nil" /\ cmd.state = "started")

AbsDiff(a, b) == IF a >= b THEN a - b ELSE b - a

\* C4: with N >= 1 backends every shard placement goes to backend
\* (cursor + 1) mod N and leaves the cursor there; the cursor stays in 0..N-1
\* and the numbers of shards routed to any two backends differ by at most 1.
C4_RoundRobin ==
    nb >= 1 =>
        /\ cursor \in Backends(nb)
        /\ \A a, b \in Backends(nb) : AbsDiff(placed[a], placed[b]) <= 1
        /\ last.op = "StoreChunk" =>
               /\ \A k \in 1..Len(last.targets) :
                      last.targets[k] = (last.cursorBefore + k) % nb
               /\ cursor = (last.cursorBefore + Len(last.targets)) % nb

\* C4 witness: a store call of several shards that wrapped the cursor from the
\* last backend to backend 0.
C4_Witness ==
    /\ nb >= 2
    /\ last.op = "StoreChunk"
    /\ Len(last.targets) >= 2
    /\ \E k \in 2..Len(last.targets) : last.targets[k] = 0 /\ last.targets[k - 1] = nb - 1
    /\ placed[0] >= 1

PairwiseDistinct(s) == \A i, j \in 1..Len(s) : i # j => s[i] # s[j]

\* C5: with 1 <= T < N, data_parts = N - T, parity_parts = T, every chunk
\* stored completely has its N shards on N distinct backends, and is loaded
\* without DataReconstructionError whichever T backends are unavailable.
C5_TolerateAnyTBackends ==
    \A s \in stored :
        (s.chunk.ParityParts >= 1 /\ s.chunk.DataParts = nb - s.chunk.ParityParts) =>
            /\ Len(s.targets) = nb
            /\ PairwiseDistinct(s.targets)
            /\ \A down \in SUBSET Backends(nb) :
                   Cardinality(down) <= s.chunk.ParityParts =>
                       loadChunk(blobs, Backends(nb) \ down, nb, s.chunk).err
                           # "DataReconstructionError"

\* C5 witness: after an aborted store call, T backends are down and a chunk
\* stored completely is loaded through reconstruction.
C5_Witness ==
    /\ last.op = "loadChunk"
    /\ cmd.parityParts >= 1
    /\ Cardinality(Backends(nb) \ up) = cmd.parityParts
    /\ calls > Cardinality(stored)
    /\ last.res.err = "nil"
    /\ last.res.rebuilt = 1

\* The chunk of the last StoreChunk call was stored completely by an earlier call.
StoredBefore ==
    \E s \in stored : s.chunk.ShaSum = last.chunk.ShaSum /\ s.chunk.Num < last.chunk.Num

AllZero(s) == \A i \in 1..Len(s) : s[i] = 0

\* C10 (as claimed): storing again a chunk that was stored completely changes
\* no backend's blobs and every shard reports stored_size = 0, at every
\* cursor position.
C10_SecondStoreAlwaysNoOp ==
    (last.op = "StoreChunk" /\ last.err = "nil" /\ StoredBefore) =>
        (blobs = last.before /\ AllZero(last.sizes))

\* C10 (amended): storing again a chunk that was stored completely is a no-op
\* when the call routes each shard to the backend the earlier call routed it
\* to (it starts at the same cursor position modulo N): no backend's blobs
\* change and every shard reports stored_size = 0.
C10_SecondStoreNoOpOnSameBackends ==
    (/\ last.op = "StoreChunk"
     /\ last.err = "nil"
     /\ \E s \in stored : /\ s.chunk.ShaSum = last.chunk.ShaSum
                          /\ s.chunk.Num < last.chunk.Num
                          /\ s.targets = last.targets) =>
        (blobs = last.before /\ AllZero(last.sizes))

\* C10 witness: a chunk of several shards stored a second time on the same backends.
C10_Witness ==
    /\ last.op = "StoreChunk"
    /\ last.err = "nil"
    /\ Len(last.targets) >= 2
    /\ \E s \in stored : /\ s.chunk.ShaSum = last.chunk.ShaSum
                         /\ s.chunk.Num < last.chunk.Num
                         /\ s.targets = last.targets
    /\ AllZero(last.sizes)

----------------------------------------------------------------------------
\* State machine of the read transform: one chunk of shape (d, p) stored
\* through the Backend Manager, shards then lost or damaged on the backends,
\* and loadChunk run on what is left.

ReadBackends == 2

\* The state after StoreChunk of the chunk on a freshly opened repository.
StoredOnce(n, chunk) ==
    LET r == StoreChunk([b \in Backends(n) |-> NoBlobs], Backends(n), TRUE, n, 0,
                        [b \in Backends(n) |-> 0], chunk)
    IN /\ nb = n
       /\ up = Backends(n)
       /\ blobs = r.blobs
       /\ meta = WithChunkFolders([b \in Backends(n) |-> NoMeta], r.made)
       /\ cursor = r.cursor
       /\ placed = r.placed
       /\ stored = {[chunk |-> chunk, targets |-> r.targets]}
       /\ calls = 1
       /\ cmd = [state |-> "started", tolerance |-> chunk.ParityParts,
                 dataParts |-> ToUint(chunk.DataParts),
                 parityParts |-> chunk.ParityParts,
                 gz |-> chunk.Compressed = "GZip", aes |-> chunk.Encrypted = "AES"]
       /\ last = NoOp
       /\ ReaderIdle(NoArchive)

InitLoad ==
    \E d \in 1..MaxData, p \in 0..MaxParity, P \in Plaintexts,
       gz \in BOOLEAN, aes \in BOOLEAN :
        StoredOnce(ReadBackends, EncodeChunk(P, gz, aes, d, p, 0))

\* The shard blobs that no longer hold the bytes that were stored.
Damaged ==
    {x \in {[b |-> b, k |-> k] : b \in Backends(nb), k \in UNION {DOMAIN blobs[c] : c \in Backends(nb)}} :
        /\ x.k \in DOMAIN blobs[x.b]
        /\ \E s \in stored : /\ s.chunk.ShaSum = x.k.name
                             /\ blobs[x.b][x.k] # s.chunk.Data[x.k.part]}

Remove(f, k) == [x \in DOMAIN f \ {k} |-> f[x]]

\* A shard blob is deleted from its backend.
DeleteShard(b, k) ==
    /\ k \in DOMAIN blobs[b]
    /\ blobs' = [blobs EXCEPT ![b] = Remove(@, k)]
    /\ last' = EnvOp
    /\ UNCHANGED <<nb, up, meta, cursor, placed, stored, calls, cmd, readerVars, restoreVars, lockVars>>

\* A shard blob loses its last byte.
TruncateShard(b, k) ==
    /\ k \in DOMAIN blobs[b]
    /\ Damaged = {}
    /\ Len(blobs[b][k]) > 0
    /\ blobs' = [blobs EXCEPT ![b][k] = SubSeq(@, 1, Len(@) - 1)]
    /\ last' = EnvOp
    /\ UNCHANGED <<nb, up, meta, cursor, placed, stored, calls, cmd, readerVars, restoreVars, lockVars>>

\* One byte of a shard blob changes.
AlterShard(b, k, j) ==
    /\ k \in DOMAIN blobs[b]
    /\ Damaged = {}
    /\ j \in 1..Len(blobs[b][k])
    /\ blobs' = [blobs EXCEPT ![b][k][j] = Fp(@ + 1)]
    /\ last' = EnvOp
    /\ UNCHANGED <<nb, up, meta, cursor, placed, stored, calls, cmd, readerVars, restoreVars, lockVars>>

MaxShardLen == LoadLen + 3

NextLoad ==
    \/ \E b \in Backends(nb) : \E k \in DOMAIN blobs[b] : DeleteShard(b, k)
    \/ \E b \in Backends(nb) : \E k \in DOMAIN blobs[b] : TruncateShard(b, k)
    \/ \E b \in Backends(nb) : \E k \in DOMAIN blobs[b] :
           \E j \in 1..MaxShardLen : AlterShard(b, k, j)
    \/ \E s \in stored : ReadChunk(s)

SpecLoad == InitLoad /\ [][NextLoad]_vars

----------------------------------------------------------------------------
\* Claims checked under SpecLoad.

\* The shards of the chunk that the Backend Manager can load.
Loadable(chunk) ==
    {i \in DOMAIN chunk.Data : LoadChunk(blobs, up, nb, chunk, i).err = "nil"}

\* The payload the write transform split into the shards of the chunk.
Payload(chunk) == SubSeq(Concat(chunk.Data, chunk.DataParts), 1, chunk.Size)

\* C1: for a chunk of shape (d, p), p > 0, whose loadable shards are as stored:
\* loadChunk joins and decodes the payload whenever at least d shards can be
\* loaded, whichever they are, and returns DataReconstructionError whenever
\* fewer than d can be loaded.
C1_AnyDShardsSuffice ==
    (last.op = "loadChunk" /\ last.chunk.ParityParts > 0 /\ Damaged = {}) =>
        IF Cardinality(Loadable(last.chunk)) >= last.chunk.DataParts
        THEN /\ last.res.joined = Payload(last.chunk)
             /\ last.res.err = "nil"
             /\ sha256hex(last.res.data) = last.chunk.ShaSum
        ELSE /\ last.res.err = "DataReconstructionError"
             /\ last.res.blocksFound = Cardinality(Loadable(last.chunk))
             /\ last.res.asked = NumShards(last.chunk)

\* C1 witness: shape (2, 2), both data shards lost, the payload rebuilt from
\* the two parity shards.
C1_Witness ==
    /\ last.op = "loadChunk"
    /\ last.chunk.DataParts = 2 /\ last.chunk.ParityParts = 2
    /\ Damaged = {}
    /\ Loadable(last.chunk) = {2, 3}
    /\ last.res.err = "nil"
    /\ last.res.rebuilt = 1
    /\ last.res.joined = Payload(last.chunk)

\* C1 witness (second case): p + 1 shards lost.
C1_WitnessTooFew ==
    /\ last.op = "loadChunk"
    /\ last.chunk.DataParts = 2 /\ last.chunk.ParityParts = 2
    /\ Cardinality(Loadable(last.chunk)) = 1
    /\ last.res.err = "DataReconstructionError"

\* The blobs with the shards of index >= m removed.
FirstShards(m) ==
    [b \in Backends(nb) |->
        [k \in {x \in DOMAIN blobs[b] : x.part < m} |-> blobs[b][k]]]

\* The blobs without the damaged ones.
CleanShards ==
    [b \in Backends(nb) |->
        [k \in {x \in DOMAIN blobs[b] : [b |-> b, k |-> x] \notin Damaged} |-> blobs[b][k]]]

\* C8: a plaintext returned without error hashes to the record's
\* decrypted_sha_sum; a CheckSumError names sha256 sums that differ, the
\* expected one being the record's, and ends the call at the first payload
\* joined: the shards after the last one fetched play no part, and no
\* shorter prefix of the shards gave a payload.
C8_CheckSumFinal ==
    last.op = "loadChunk" =>
        /\ last.res.err = "nil" => sha256hex(last.res.data) = last.chunk.DecryptedShaSum
        /\ last.res.err = "CheckSumError" =>
               /\ last.res.expected = last.chunk.DecryptedShaSum
               /\ last.res.found # last.res.expected
               /\ last.res.joined # NotJoined
               /\ last.res.rebuilt <= 1
               /\ loadChunk(FirstShards(last.res.asked), up, nb, last.chunk).err
                      = "CheckSumError"
               /\ \A m \in 0..(last.res.asked - 1) :
                      loadChunk(FirstShards(m), up, nb, last.chunk).joined = NotJoined

\* C8 witness: CheckSumError before all shards were fetched, although the
\* clean shards alone give the plaintext.
C8_Witness ==
    /\ last.op = "loadChunk"
    /\ last.res.err = "CheckSumError"
    /\ last.res.asked < NumShards(last.chunk)
    /\ loadChunk(CleanShards, up, nb, last.chunk).err = "nil"

\* C9 (as claimed): shape (d, p), p >= 1, all d + p shards loadable, one data
\* shard damaged and the others intact: loadChunk succeeds through
\* reconstruction and returns the original plaintext.
C9_DamagedDataShardRecovered ==
    (/\ last.op = "loadChunk"
     /\ last.chunk.ParityParts >= 1
     /\ Loadable(last.chunk) = DOMAIN last.chunk.Data
     /\ Cardinality(Damaged) = 1
     /\ \A x \in Damaged : x.k.part < last.chunk.DataParts) =>
        /\ last.res.err = "nil"
        /\ sha256hex(last.res.data) = last.chunk.ShaSum

----------------------------------------------------------------------------
\* State machine of the metadata fan-out: snapshots and repository metadata
\* saved to and loaded from all backends, one chunk shard kept on one backend.

MetaBackends == 2    \* backends 0 .. MetaBackends in this specification

MetaCalls == 1       \* StoreChunk calls in this specification

SnapshotIds == {"s1"}
\* The snapshot bytes and the repository bytes that are saved.
MetaBlobs == {<< 1 >>, << 2 >>}
RepoBlobs == {<< 3 >>}

\* The chunk whose shard the metadata specification loads.
MetaChunk == EncodeChunk(<< 0 >>, FALSE, FALSE, 1, 0, 0)

InitMeta == \E n \in 0..MetaBackends : Opened(n)

\* BackendManager.InitRepository
MInitRepository ==
    /\ LET r == InitRepository(meta, up, nb)
       IN /\ meta' = r.metas
          /\ last' = [op |-> "InitRepository", err |-> r.err, called |-> r.called,
                      before |-> meta]
    /\ UNCHANGED <<nb, up, blobs, cursor, placed, stored, calls, cmd, readerVars, restoreVars, lockVars>>

\* StorageDropbox.InitRepository called on backend b alone.
MBackendInitRepository(b) ==
    /\ LET r == BackendInitRepository(meta[b], b \in up)
       IN /\ meta' = [meta EXCEPT ![b] = r.meta]
          /\ last' = [op |-> "BackendInitRepository", err |-> r.err, backend |-> b,
                      before |-> meta]
    /\ UNCHANGED <<nb, up, blobs, cursor, placed, stored, calls, cmd, readerVars, restoreVars, lockVars>>

\* BackendManager.SaveSnapshot
MSaveSnapshot(id, data) ==
    /\ LET r == SaveSnapshot(meta, up, nb, id, data)
       IN /\ meta' = r.metas
          /\ last' = [op |-> "SaveSnapshot", err |-> r.err, called |-> r.called,
                      before |-> meta, id |-> id, data |-> data]
    /\ UNCHANGED <<nb, up, blobs, cursor, placed, stored, calls, cmd, readerVars, restoreVars, lockVars>>

\* BackendManager.SaveRepository
MSaveRepository(data) ==
    /\ LET r == SaveRepository(meta, up, nb, data)
       IN /\ meta' = r.metas
          /\ last' = [op |-> "SaveRepository", err |-> r.err, called |-> r.called,
                      before |-> meta, data |-> data]
    /\ UNCHANGED <<nb, up, blobs, cursor, placed, stored, calls, cmd, readerVars, restoreVars, lockVars>>

\* BackendManager.LoadSnapshot
MLoadSnapshot(id) ==
    /\ LET r == LoadSnapshot(meta, up, nb, id)
       IN last' = [op |-> "LoadSnapshot", err |-> r.err, data |-> r.data,
                   asked |-> r.asked, id |-> id]
    /\ UNCHANGED <<nb, up, blobs, meta, cursor, placed, stored, calls, cmd, readerVars, restoreVars, lockVars>>

\* BackendManager.LoadRepository
MLoadRepository ==
    /\ LET r == LoadRepository(meta, up, nb)
       IN last' = [op |-> "LoadRepository", err |-> r.err, data |-> r.data,
                   asked |-> r.asked]
    /\ UNCHANGED <<nb, up, blobs, meta, cursor, placed, stored, calls, cmd, readerVars, restoreVars, lockVars>>

\* BackendManager.LoadChunk of one shard of a stored chunk.
MLoadChunk(s, part) ==
    /\ s \in stored
    /\ LET r == LoadChunk(blobs, up, nb, s.chunk, part)
       IN last' = [op |-> "LoadChunk", err |-> r.err, data |-> r.data,
                   asked |-> r.asked, chunk |-> s.chunk, part |-> part]
    /\ UNCHANGED <<nb, up, blobs, meta, cursor, placed, stored, calls, cmd, readerVars, restoreVars, lockVars>>

\* BackendManager.StoreChunk of the chunk, on the backends the cursor selects next.
MStoreChunk ==
    /\ calls < MetaCalls
    /\ DoStoreChunk(MetaChunk)
    /\ UNCHANGED <<nb, up, cmd, readerVars, restoreVars, lockVars>>

NextMeta ==
    \/ MInitRepository
    \/ \E b \in Backends(nb) : MBackendInitRepository(b)
    \/ \E id \in SnapshotIds, data \in MetaBlobs : MSaveSnapshot(id, data)
    \/ \E data \in RepoBlobs : MSaveRepository(data)
    \/ \E id \in SnapshotIds : MLoadSnapshot(id)
    \/ MLoadRepository
    \/ \E s \in stored : \E part \in DOMAIN s.chunk.Data : MLoadChunk(s, part)
    \/ MStoreChunk
    \/ \E b \in Backends(nb) : BackendDown(b)
    \/ \E b \in Backends(nb) : BackendUp(b)

SpecMeta == InitMeta /\ [][NextMeta]_vars

----------------------------------------------------------------------------
\* Claims checked under SpecMeta.

MinOf(S) == CHOOSE x \in S : \A y \in S : x <= y

UpTo(j) == [k \in 1..(j + 1) |-> k - 1]

\* The backends whose own load of what the last call asked for succeeds, and
\* what each of them holds.
LoadOk ==
    CASE last.op = "LoadSnapshot" ->
             {b \in up : last.id \in DOMAIN meta[b].snaps}
      [] last.op = "LoadRepository" ->
             {b \in up : meta[b].repo # NoRepo}
      [] last.op = "LoadChunk" ->
             {b \in up : ShardPath(last.chunk.ShaSum, last.part, last.chunk.DataParts)
                             \in DOMAIN blobs[b]}
      [] OTHER -> {}

Held(b) ==
    CASE last.op = "LoadSnapshot" -> meta[b].snaps[last.id]
      [] last.op = "LoadRepository" -> meta[b].repo
      [] last.op = "LoadChunk" ->
             blobs[b][ShardPath(last.chunk.ShaSum, last.part, last.chunk.DataParts)]

LoadFailed ==
    CASE last.op = "LoadSnapshot" -> "ErrLoadSnapshotFailed"
      [] last.op = "LoadRepository" -> "ErrLoadRepositoryFailed"
      [] last.op = "LoadChunk" -> "ErrLoadChunkFailed"

\* C6: load_chunk, load_snapshot and load_repository ask the backends in list
\* order, return the data of the lowest-index backend whose load succeeds and
\* ask no backend after it; they fail with their Load...Failed error exactly
\* when every backend returns an error (also with no backend at all).
C6_FirstSuccessInOrder ==
    last.op \in {"LoadSnapshot", "LoadRepository", "LoadChunk"} =>
        IF LoadOk = {}
        THEN /\ last.err = LoadFailed
             /\ last.asked = UpTo(nb - 1)
        ELSE /\ last.err = "nil"
             /\ last.data = Held(MinOf(LoadOk))
             /\ last.asked = UpTo(MinOf(LoadOk))

\* C6 witness: two backends hold different snapshot bytes; the first one's
\* are returned and the second one is not asked.
C6_Witness ==
    /\ last.op = "LoadSnapshot"
    /\ LoadOk = {0, 1}
    /\ meta[0].snaps[last.id] # meta[1].snaps[last.id]
    /\ last.data = meta[0].snaps[last.id]
    /\ last.asked = << 0 >>

\* C6 witness (second case): a chunk shard found on the second backend after
\* the first one failed.
C6_WitnessFailover ==
    /\ last.op = "LoadChunk"
    /\ LoadOk = {1}
    /\ last.err = "nil"
    /\ last.asked = << 0, 1 >>

\* The backends on which the last save or init call fails, from the state
\* before the call.
SaveFails ==
    IF last.op = "InitRepository"
    THEN {b \in Backends(nb) : \/ b \notin up
                               \/ last.before[b].root
                               \/ last.before[b].snapshots
                               \/ last.before[b].chunks}
    ELSE Backends(nb) \ up

\* Backend b has performed the operation of the last save or init call.
Performed(b) ==
    CASE last.op = "SaveSnapshot" ->
             /\ last.id \in DOMAIN meta[b].snaps
             /\ meta[b].snaps[last.id] = last.data
      [] last.op = "SaveRepository" -> meta[b].repo = last.data
      [] last.op = "InitRepository" ->
             meta[b].root /\ meta[b].snapshots /\ meta[b].chunks

\* C7: save_snapshot, save_repository and init_repository call the backends
\* in list order; on success every backend has performed the operation; when
\* backend j fails the call returns its error, the backends before j have
\* performed the operation and no backend after j is called.
C7_SaveAllAbortAtFirstError ==
    last.op \in {"SaveSnapshot", "SaveRepository", "InitRepository"} =>
        IF SaveFails = {}
        THEN /\ last.err = "nil"
             /\ last.called = UpTo(nb - 1)
             /\ \A b \in Backends(nb) : Performed(b)
        ELSE /\ last.err = (IF last.op = "InitRepository"
                            THEN "ErrRepositoryExists" ELSE "UploadError")
             /\ last.called = UpTo(MinOf(SaveFails))
             /\ \A b \in Backends(nb) : b < MinOf(SaveFails) => Performed(b)
             /\ \A b \in Backends(nb) : b > MinOf(SaveFails) => meta[b] = last.before[b]

\* C7 witness: the second backend fails a save that would have changed it;
\* the first backend has the new bytes.
C7_Witness ==
    /\ last.op = "SaveSnapshot"
    /\ nb >= 2
    /\ SaveFails = {1}
    /\ last.err = "UploadError"
    /\ meta[0].snaps[last.id] = last.data
    /\ last.id \in DOMAIN meta[1].snaps
    /\ meta[1].snaps[last.id] # last.data

\* C7 witness (second case): the first backend fails, a later one is not
\* called although it would have performed the operation.
C7_WitnessNotCalled ==
    /\ last.op = "SaveSnapshot"
    /\ nb >= 2
    /\ MinOf(SaveFails \cup {nb}) = 0
    /\ 1 \in up
    /\ ~Performed(1)

----------------------------------------------------------------------------
\* The archive reader (decode.go): indexOfChunk, chunkForOffset,
\* readArchiveChunk, ReadArchive.

\* A lookup that takes the chunk list to be sorted by number.
indexOfChunkByPosition(a, chunkNum) ==
    IF chunkNum < Len(a.Chunks) THEN [err |-> "nil", idx |-> chunkNum + 1]
    ELSE [err |-> "ChunkError", idx |-> 0]

\* indexOfChunk: the index in arc.Chunks of the chunk numbered chunkNum.
indexOfChunk(a, chunkNum) ==
    LET hits == {i \in 1..Len(a.Chunks) : a.Chunks[i].Num = chunkNum}
    IN IF hits = {} THEN [err |-> "ChunkError", idx |-> 0]
       ELSE [err |-> "nil", idx |-> CHOOSE i \in hits : \A k \in hits : i <= k]

\* chunkForOffset with the comparison >= in place of >.
RECURSIVE chunkForOffsetLoopInclusive(_, _, _, _)
chunkForOffsetLoopInclusive(a, offset, i, size) ==
    IF i >= Len(a.Chunks) THEN [err |-> "EOF", num |-> 0, internalOffset |-> 0]
    ELSE LET ix == indexOfChunk(a, i)
         IN IF ix.err # "nil" THEN [err |-> "SeekError", num |-> 0, internalOffset |-> 0]
            ELSE LET chunk == a.Chunks[ix.idx]
                 IN IF size + chunk.OriginalSize >= offset
                    THEN [err |-> "nil", num |-> chunk.Num, internalOffset |-> offset - size]
                    ELSE chunkForOffsetLoopInclusive(a, offset, i + 1,
                                                     size + chunk.OriginalSize)

\* The loop of chunkForOffset from chunk number i on, size bytes before it.
RECURSIVE chunkForOffsetLoop(_, _, _, _)
chunkForOffsetLoop(a, offset, i, size) ==
    IF i >= Len(a.Chunks) THEN [err |-> "EOF", num |-> 0, internalOffset |-> 0]
    ELSE LET ix == indexOfChunk(a, i)
         IN IF ix.err # "nil" THEN [err |-> "SeekError", num |-> 0, internalOffset |-> 0]
            ELSE LET chunk == a.Chunks[ix.idx]
                 IN IF size + chunk.OriginalSize > offset
                    THEN [err |-> "nil", num |-> chunk.Num, internalOffset |-> offset - size]
                    ELSE chunkForOffsetLoop(a, offset, i + 1, size + chunk.OriginalSize)

\* chunkForOffset
chunkForOffset(a, offset) == chunkForOffsetLoop(a, offset, 0, 0)

\* readArchiveChunk statement by statement. callers[g] is the call of
\* goroutine g: goroutine 0 is the user's, inside ReadArchive; the others are
\* read-ahead goroutines or, in the mutex and cache specifications, any
\* goroutines of the process. The panic of ReadArchive ends the process: no
\* goroutine takes a step after it.

MaxCallers == 2      \* goroutines 1 .. MaxCallers inside readArchiveChunk at a time

\* A mutex that lets every caller in.
LockGrantedAlways(mu) == TRUE

\* mutex.Lock() returns: the mutex was not locked.
LockGranted(mu) == ~mu

\* The chunk record goroutine g works on.
ChunkOf(g) == arc.Chunks[callers[g].idx]

Count(f, s) == IF s \in DOMAIN f THEN f[s] ELSE 0

\* readArchiveChunk(repository, arc, part) up to mutex.Lock(): dat = &[]byte{},
\* indexOfChunk, and the return when the archive has no chunk of that number.
Entered(part) ==
    LET ix == indexOfChunk(arc, part)
    IN [pc |-> IF ix.err # "nil" THEN "done" ELSE "lock", part |-> part, idx |-> ix.idx,
        dat |-> << >>, err |-> ix.err, loaded |-> FALSE, waited |-> FALSE]

\* A call that goes on to the insert whatever loadChunk returned.
AfterLoadUnchecked(call, r) ==
    [call EXCEPT !.pc = "insert", !.dat = r.data, !.loaded = TRUE]

\* finalData, err := loadChunk(repository, chunk); if err != nil: return dat,
\* err; *dat = append(*dat, finalData...): the call after loadChunk returned r.
AfterLoad(call, r) ==
    IF r.err # "nil" THEN [call EXCEPT !.pc = "done", !.err = r.err]
    ELSE [call EXCEPT !.pc = "insert", !.dat = r.data, !.loaded = TRUE]

\* A goroutine calls readArchiveChunk(repository, arc, part): up to mutex.Lock().
CallGo(g, part) ==
    /\ g \notin DOMAIN callers
    /\ callers' = Put(callers, g, Entered(part))
    /\ UNCHANGED <<nb, up, blobs, meta, cursor, placed, stored, calls, cmd, last, readerVars,
                   restoreVars, loads>>

\* mutex.Lock() finds the mutex locked: the goroutine waits.
CallWait(g) ==
    /\ g \in DOMAIN callers
    /\ callers[g].pc = "lock"
    /\ rd.pc # "panic"
    /\ ~LockGranted(mutex)
    /\ ~callers[g].waited
    /\ callers' = [callers EXCEPT ![g].waited = TRUE]
    /\ UNCHANGED <<nb, up, blobs, meta, cursor, placed, stored, calls, cmd, last, readerVars,
                   restoreVars, loads>>

\* mutex.Lock() returns.
CallLock(g) ==
    /\ g \in DOMAIN callers
    /\ callers[g].pc = "lock"
    /\ rd.pc # "panic"
    /\ LockGranted(mutex)
    /\ mutex' = TRUE
    /\ callers' = [callers EXCEPT ![g].pc = "locked"]
    /\ UNCHANGED <<nb, up, blobs, meta, cursor, placed, stored, calls, cmd, last, arc, cache,
                   rd, tasks, restoreVars, loads>>

\* cacheData, ok := cache[chunk.ShaSum]; if ok: append, Unlock, return.
CallLookup(g) ==
    /\ g \in DOMAIN callers
    /\ callers[g].pc = "locked"
    /\ rd.pc # "panic"
    /\ IF ChunkOf(g).ShaSum \in DOMAIN cache
       THEN /\ callers' = [callers EXCEPT ![g].pc = "done",
                                          ![g].dat = cache[ChunkOf(g).ShaSum]]
            /\ mutex' = FALSE
       ELSE /\ callers' = [callers EXCEPT ![g].pc = "load"]
            /\ mutex' = mutex
    /\ UNCHANGED <<nb, up, blobs, meta, cursor, placed, stored, calls, cmd, last, arc, cache,
                   rd, tasks, restoreVars, loads>>

\* finalData, err := loadChunk(repository, chunk); if err != nil: return.
CallLoad(g) ==
    /\ g \in DOMAIN callers
    /\ callers[g].pc = "load"
    /\ rd.pc # "panic"
    /\ LET r == loadChunk(blobs, up, nb, ChunkOf(g))
       IN /\ callers' = [callers EXCEPT ![g] = AfterLoad(@, r)]
          /\ loads' = IF callers'[g].pc = "insert"
                      THEN Put(loads, ChunkOf(g).ShaSum, Count(loads, ChunkOf(g).ShaSum) + 1)
                      ELSE loads
    /\ UNCHANGED <<nb, up, blobs, meta, cursor, placed, stored, calls, cmd, last, readerVars,
                   restoreVars>>

\* cache[chunk.ShaSum] = finalData; mutex.Unlock(); return.
CallInsert(g) ==
    /\ g \in DOMAIN callers
    /\ callers[g].pc = "insert"
    /\ rd.pc # "panic"
    /\ cache' = Put(cache, ChunkOf(g).ShaSum, callers[g].dat)
    /\ mutex' = FALSE
    /\ callers' = [callers EXCEPT ![g].pc = "done"]
    /\ UNCHANGED <<nb, up, blobs, meta, cursor, placed, stored, calls, cmd, last, arc, rd,
                   tasks, restoreVars, loads>>

\* The goroutine of a call that returned ends; what the call returned is dropped.
CallEnd(g) ==
    /\ g \in DOMAIN callers
    /\ callers[g].pc = "done"
    /\ rd.pc # "panic"
    /\ callers' = Remove(callers, g)
    /\ UNCHANGED <<nb, up, blobs, meta, cursor, placed, stored, calls, cmd, last, readerVars,
                   restoreVars, loads>>

\* The read-ahead goroutines that were started and have not ended.
Goroutines == BagCardinality(tasks) + Cardinality(DOMAIN callers \ {0})

\* ReadArchive up to its loop: dat = &[]byte{}, chunkForOffset. The call is
\* made while fewer than MaxTasks read-ahead goroutines are alive.
ReadArchiveStart(offset, size) ==
    /\ rd.pc \in {"idle", "done", "dataDone"}
    /\ Goroutines < MaxTasks
    /\ rd' = IF arc.Type # "File"
             THEN [IdleRead EXCEPT !.pc = "done", !.offset = offset, !.size = size]
             ELSE LET c == chunkForOffset(arc, offset)
                  IN IF c.err # "nil"
                     THEN [IdleRead EXCEPT !.pc = "done", !.offset = offset,
                                           !.size = size, !.err = c.err]
                     ELSE [IdleRead EXCEPT !.pc = "loop", !.offset = offset, !.size = size,
                                           !.neededPart = c.num,
                                           !.internalOffset = c.internalOffset]
    /\ UNCHANGED <<nb, up, blobs, meta, cursor, placed, stored, calls, cmd, last>>
    /\ UNCHANGED <<arc, cache, mutex, tasks, restoreVars, lockVars>>

\* A step of the user's goroutine in ReadArchive. At the loop head: the call
\* of readArchiveChunk (the user's call is callers[0], it runs by the steps
\* CallLock .. CallInsert), or, after the loop, the start of the read-ahead
\* goroutine and the return. When readArchiveChunk has returned: the rest of
\* the loop body.
ReadArchiveStep ==
    /\ rd.pc \in {"loop", "call"}
    /\ IF rd.pc = "loop"
       THEN IF Len(rd.dat) < rd.size
            THEN /\ callers' = Put(callers, 0, Entered(rd.neededPart))
                 /\ rd' = [rd EXCEPT !.pc = "call"]
                 /\ tasks' = tasks
            ELSE /\ tasks' = tasks (+) SetToBag({rd.neededPart})
                 /\ rd' = [rd EXCEPT !.pc = "done", !.err = "nil"]
                 /\ callers' = callers
       ELSE /\ 0 \in DOMAIN callers
            /\ callers[0].pc = "done"
            /\ LET b == callers[0].dat
                   d == SubSeq(b, rd.internalOffset + 1, Len(b))
               IN rd' = IF callers[0].err # "nil" \/ Len(b) = 0
                        THEN [rd EXCEPT !.pc = "panic", !.err = callers[0].err]
                        ELSE IF rd.internalOffset > Len(b)
                             THEN [rd EXCEPT !.pc = "panic",
                                             !.err = "panic: slice bounds out of range"]
                        ELSE IF Len(d) = 0
                             THEN [rd EXCEPT !.pc = "panic", !.err = "nil"]
                        ELSE [rd EXCEPT
                                 !.pc = "loop",
                                 !.dat = IF Len(d) + Len(rd.dat) > rd.size
                                         THEN rd.dat \o SubSeq(d, 1, rd.size - Len(rd.dat))
                                         ELSE rd.dat \o d,
                                 !.internalOffset = 0,
                                 !.neededPart = rd.neededPart + 1]
            /\ callers' = Remove(callers, 0)
            /\ tasks' = tasks
    /\ UNCHANGED <<nb, up, blobs, meta, cursor, placed, stored, calls, cmd, last, arc, cache,
                   mutex, restoreVars, loads>>

\* DecodeArchiveData up to its loop.
DecodeArchiveDataStart ==
    /\ rd.pc \in {"idle", "done", "dataDone"}
    /\ rd' = [IdleRead EXCEPT !.pc = "data"]
    /\ UNCHANGED <<nb, up, blobs, meta, cursor, placed, stored, calls, cmd, last>>
    /\ UNCHANGED <<arc, cache, mutex, tasks, restoreVars, lockVars>>

\* The chunk record of the round of DecodeArchiveData that is running.
DataChunk == arc.Chunks[indexOfChunk(arc, rd.neededPart).idx]

\* A step of the user's goroutine in DecodeArchiveData; rd.neededPart is the
\* loop variable i, rd.final is finalData.
\*   "data":       the loop test and indexOfChunk, or the return after the loop
\*   "dataLock":   mutex.Lock() returns
\*   "dataLocked": the cache lookup; on a hit append, Unlock, next round
\*   "dataLoad":   loadChunk; on an error the return, else the append
\*   "dataInsert": cache[chunk.ShaSum] = finalData, Unlock, next round
DecodeArchiveDataStep ==
    /\ rd.pc \in {"data", "dataLock", "dataLocked", "dataLoad", "dataInsert"}
    /\ CASE rd.pc = "data" ->
                /\ rd' = IF arc.Type # "File" \/ rd.neededPart >= Len(arc.Chunks)
                         THEN [rd EXCEPT !.pc = "dataDone", !.err = "nil"]
                         ELSE IF indexOfChunk(arc, rd.neededPart).err # "nil"
                              THEN [rd EXCEPT !.pc = "dataDone",
                                              !.err = indexOfChunk(arc, rd.neededPart).err]
                         ELSE [rd EXCEPT !.pc = "dataLock"]
                /\ UNCHANGED <<cache, mutex, loads>>
         [] rd.pc = "dataLock" ->
                /\ LockGranted(mutex)
                /\ mutex' = TRUE
                /\ rd' = [rd EXCEPT !.pc = "dataLocked"]
                /\ UNCHANGED <<cache, loads>>
         [] rd.pc = "dataLocked" ->
                /\ IF DataChunk.ShaSum \in DOMAIN cache
                   THEN /\ rd' = [rd EXCEPT !.pc = "data",
                                            !.dat = @ \o cache[DataChunk.ShaSum],
                                            !.neededPart = @ + 1]
                        /\ mutex' = FALSE
                   ELSE /\ rd' = [rd EXCEPT !.pc = "dataLoad"]
                        /\ mutex' = mutex
                /\ UNCHANGED <<cache, loads>>
         [] rd.pc = "dataLoad" ->
                /\ LET r == loadChunk(blobs, up, nb, DataChunk)
                   IN IF r.err # "nil"
                      THEN /\ rd' = [rd EXCEPT !.pc = "dataDone", !.err = r.err]
                           /\ loads' = loads
                      ELSE /\ rd' = [rd EXCEPT !.pc = "dataInsert", !.dat = @ \o r.data,
                                               !.final = r.data]
                           /\ loads' = Put(loads, DataChunk.ShaSum,
                                           Count(loads, DataChunk.ShaSum) + 1)
                /\ UNCHANGED <<cache, mutex>>
         [] rd.pc = "dataInsert" ->
                /\ cache' = Put(cache, DataChunk.ShaSum, rd.final)
                /\ mutex' = FALSE
                /\ rd' = [rd EXCEPT !.pc = "data", !.final = << >>, !.neededPart = @ + 1]
                /\ UNCHANGED loads
    /\ UNCHANGED <<nb, up, blobs, meta, cursor, placed, stored, calls, cmd, last, arc, tasks,
                   restoreVars, callers>>

\* A read-ahead goroutine starts: it calls readArchiveChunk(repository, arc,
\* part) and runs up to mutex.Lock(), as the goroutine of the lowest free
\* number; it goes on by the steps CallLock .. CallInsert and ends by CallEnd.
ReadAhead(part) ==
    /\ BagIn(part, tasks)
    /\ rd.pc # "panic"
    /\ \E g \in 1..MaxCallers :
          /\ g \notin DOMAIN callers
          /\ \A h \in 1..(g - 1) : h \in DOMAIN callers
          /\ callers' = Put(callers, g, Entered(part))
    /\ tasks' = tasks (-) SetToBag({part})
    /\ UNCHANGED <<nb, up, blobs, meta, cursor, placed, stored, calls, cmd, last, arc, cache,
                   mutex, rd, restoreVars, loads>>

\* A backend stops answering / answers again while the reader runs.
ReaderBackendDown(b) == rd.pc # "panic" /\ BackendDown(b)

ReaderBackendUp(b) == rd.pc # "panic" /\ BackendUp(b)

\* All backends stop answering / answer again (the network goes and comes back).
Outage ==
    /\ up # {}
    /\ rd.pc # "panic"
    /\ up' = {}
    /\ last' = EnvOp
    /\ UNCHANGED <<nb, blobs, meta, cursor, placed, stored, calls, cmd, readerVars,
                   restoreVars, lockVars>>

OutageEnds ==
    /\ up = {}
    /\ rd.pc # "panic"
    /\ up' = Backends(nb)
    /\ last' = EnvOp
    /\ UNCHANGED <<nb, blobs, meta, cursor, placed, stored, calls, cmd, readerVars,
                   restoreVars, lockVars>>

----------------------------------------------------------------------------
\* State machine of the archive reader: a File archive whose chunks were
\* stored on ReadBackends backends with failure tolerance 1, read at random
\* offsets by one user, with the read-ahead goroutines and backend outages.

MaxChunks == 2       \* chunks per archive 1 .. MaxChunks
MaxSize == 3         \* size argument of ReadArchive 0 .. MaxSize

\* The plaintext of chunk number k when the chunks before it hold `before`
\* bytes: the bytes of the file are 1, 2, 3, ... so that every slice differs.
FileBytes(before, n) == [i \in 1..n |-> before + i]

RECURSIVE SumTo(_, _)
SumTo(lens, k) == IF k = 0 THEN 0 ELSE lens[k] + SumTo(lens, k - 1)

\* The chunk records the writer forms for a file cut into chunks of the lengths lens.
FileChunks(lens, d, p) ==
    [k \in 1..Len(lens) |->
        EncodeChunk(FileBytes(SumTo(lens, k - 1), lens[k]), FALSE, FALSE, d, p, k - 1)]

Reverse(s) == [i \in 1..Len(s) |-> s[Len(s) + 1 - i]]

\* StoreChunk of the chunks cs[i..] one after the other.
RECURSIVE StoreAll(_, _, _, _, _)
StoreAll(cs, i, u, n, st) ==
    IF i > Len(cs) THEN st
    ELSE LET r == StoreChunk(st.blobs, u, TRUE, n, st.cursor, st.placed, cs[i])
         IN StoreAll(cs, i + 1, u, n,
                     [blobs |-> r.blobs, cursor |-> r.cursor, placed |-> r.placed,
                      stored |-> st.stored \cup {[chunk |-> cs[i], targets |-> r.targets]},
                      made |-> st.made \cup r.made])

\* The reader before its first call, on a File archive of the chunk records cs
\* stored on ReadBackends backends with failure tolerance 1, the chunk list
\* reversed when rev.
ReaderStartsOn(cs, rev) ==
        LET n   == ReadBackends
            cfg == store(n, 1, TRUE)
            st  == StoreAll(cs, 1, Backends(n), n,
                            [blobs |-> [b \in Backends(n) |-> NoBlobs], cursor |-> 0,
                             placed |-> [b \in Backends(n) |-> 0], stored |-> {},
                             made |-> {}])
        IN /\ nb = n
           /\ up = Backends(n)
           /\ blobs = st.blobs
           /\ meta = WithChunkFolders([b \in Backends(n) |-> NoMeta], st.made)
           /\ cursor = st.cursor
           /\ placed = st.placed
           /\ stored = st.stored
           /\ calls = Len(cs)
           /\ cmd = [state |-> "started", tolerance |-> 1, dataParts |-> cfg.dataParts,
                     parityParts |-> cfg.parityParts, gz |-> FALSE, aes |-> FALSE]
           /\ last = NoOp
           /\ ReaderIdle([Type |-> "File", Chunks |-> IF rev THEN Reverse(cs) ELSE cs])

\* The reader before its first call, on a File archive cut into chunks of the
\* lengths lens, the chunk list reversed when rev.
ReaderStarts(lens, rev) ==
    LET cfg == store(ReadBackends, 1, TRUE)
    IN ReaderStartsOn(FileChunks(lens, UintSmall(cfg.dataParts), cfg.parityParts), rev)

InitRead ==
    \E k \in 1..MaxChunks : \E lens \in [1..k -> 1..MaxLen] : \E rev \in BOOLEAN :
        ReaderStarts(lens, rev)

NextRead ==
    \/ \E offset \in 0..(MaxChunks * MaxLen), size \in 0..MaxSize :
           ReadArchiveStart(offset, size)
    \/ ReadArchiveStep
    \/ DecodeArchiveDataStart
    \/ DecodeArchiveDataStep
    \/ \E part \in BagToSet(tasks) : ReadAhead(part)
    \/ \E g \in 0..MaxCallers : CallLock(g)
    \/ \E g \in 0..MaxCallers : CallLookup(g)
    \/ \E g \in 0..MaxCallers : CallLoad(g)
    \/ \E g \in 0..MaxCallers : CallInsert(g)
    \/ \E g \in 1..MaxCallers : CallEnd(g)
    \/ \E b \in Backends(nb) : ReaderBackendDown(b)
    \/ \E b \in Backends(nb) : ReaderBackendUp(b)

SpecRead == InitRead /\ [][NextRead]_vars

----------------------------------------------------------------------------
\* Claims checked under SpecRead.

\* The plaintext a digest stands for, and the bytes B of the archive: the
\* plaintexts of its chunks in the order of their numbers.
PlainOf(chunk) == chunk.ShaSum.sha256

RECURSIVE ArchiveBytesFrom(_, _)
ArchiveBytesFrom(a, num) ==
    IF indexOfChunk(a, num).err # "nil" THEN << >>
    ELSE PlainOf(a.Chunks[indexOfChunk(a, num).idx]) \o ArchiveBytesFrom(a, num + 1)

ArchiveBytes == ArchiveBytesFrom(arc, 0)

Min(a, b) == IF a <= b THEN a ELSE b

\* The errors of a chunk that cannot be loaded.
LoadErrors == {"DataReconstructionError", "ErrLoadChunkFailed", "CheckSumError"}

\* C2 (as claimed): with all chunks loadable, read_archive(arc, offset, size)
\* with 0 <= offset <= len(B) returns B[offset : min(offset+size, len(B))]
\* without a crash, also when the request reaches past the end of the archive
\* (an EOF from the offset resolver next to the empty slice is accepted).
C2_ReadReturnsSlice ==
    (/\ rd.pc \in {"done", "panic"}
     /\ rd.offset <= Len(ArchiveBytes)
     /\ rd.err \notin LoadErrors) =>
        /\ rd.pc = "done"
        /\ rd.dat = SubSeq(ArchiveBytes, rd.offset + 1,
                           Min(rd.offset + rd.size, Len(ArchiveBytes)))

\* C2, the part the code keeps: a request that lies inside the archive
\* (offset + size <= len(B), offset < len(B)) returns the slice.
C2_ReadInsideReturnsSlice ==
    (/\ rd.pc \in {"done", "panic"}
     /\ rd.offset < Len(ArchiveBytes)
     /\ rd.offset + rd.size <= Len(ArchiveBytes)
     /\ rd.err \notin LoadErrors) =>
        /\ rd.pc = "done"
        /\ rd.err = "nil"
        /\ rd.dat = SubSeq(ArchiveBytes, rd.offset + 1, rd.offset + rd.size)

----------------------------------------------------------------------------
\* Further claims checked under SpecMeta.

\* The backend whose CreateFolder error ended the last init call.
InitFailedAt ==
    IF last.op = "BackendInitRepository" THEN last.backend
    ELSE last.called[Len(last.called)]

\* C11: when init_repository, on one backend or on the Backend Manager, fails
\* with RepositoryExists because the root, the snapshots area or the chunks
\* area already exists on a backend, the call has created no area: every
\* backend is in the state it had before the call.
C11_RepositoryExistsBeforeSideEffects ==
    (/\ last.op \in {"InitRepository", "BackendInitRepository"}
     /\ last.err = "ErrRepositoryExists"
     /\ InitFailedAt \in up
     /\ \/ last.before[InitFailedAt].root
        \/ last.before[InitFailedAt].snapshots
        \/ last.before[InitFailedAt].chunks) =>
        meta = last.before

\* C11, the part the code keeps: init_repository on one backend that fails
\* because an area exists leaves that backend as it was.
C11_SingleBackendUnchanged ==
    (/\ last.op = "BackendInitRepository"
     /\ last.err = "ErrRepositoryExists"
     /\ last.backend \in up) =>
        meta = last.before

----------------------------------------------------------------------------
\* The restorer (decode.go): DecodeSnapshot and DecodeArchive, with the local
\* filesystem the entries are written to.

NoFile == [kind |-> "none", data |-> << >>, mtime |-> FALSE, owner |-> FALSE]

\* f.Write(bytes) at file position pos of a file opened without O_TRUNC and
\* without O_APPEND: the bytes replace what was there and the rest stays.
WriteAt(data, pos, bytes) ==
    [k \in 1..(IF Len(data) > pos + Len(bytes) THEN Len(data) ELSE pos + Len(bytes)) |->
        IF k > pos /\ k <= pos + Len(bytes) THEN bytes[k - pos] ELSE data[k]]

\* The entry DecodeArchive works on, and its path.
CurItem == snap[rst.item]

Event(name, i) == [ev |-> name, i |-> i]

\* A DecodeArchive that notes the error of a chunk and goes on with the next chunk.
ArchiveFailsGoesOn(r, err, num) ==
    [r EXCEPT !.pc = "progress",
              !.results = Append(@, [item |-> r.item, err |-> err, num |-> num])]

\* DecodeArchive returns err to the goroutine of DecodeSnapshot, which runs
\* panic(err) (lines 76-79).
ArchiveFails(r, err, num) ==
    [r EXCEPT !.pc = "panic",
              !.results = Append(@, [item |-> r.item, err |-> err, num |-> num])]

\* DecodeSnapshot: the channel is made, the goroutine is started, and
\* (prog, nil) is returned.
RDecodeSnapshot ==
    /\ rst.pc = "idle"
    /\ rst' = [rst EXCEPT !.pc = "next", !.item = 1, !.ret = "nil"]
    /\ last' = [op |-> "DecodeSnapshot", err |-> "nil"]
    /\ UNCHANGED <<nb, up, blobs, meta, cursor, placed, stored, calls, cmd, readerVars, lockVars,
                   snap, fsys>>

\* The loop over snapshot.Items: close(prog) after the last entry, else
\* DecodeArchive of the next one up to its first system call that can fail
\* (a directory or a symlink is made, errors ignored).
RNextItem ==
    /\ rst.pc = "next"
    /\ IF rst.item > Len(snap)
       THEN /\ rst' = [rst EXCEPT !.pc = "closed", !.closed = TRUE]
            /\ fsys' = fsys
       ELSE LET a == CurItem
            IN IF a.Type = "File"
               THEN /\ rst' = [rst EXCEPT !.pc = "open", !.trace = << >>, !.i = 0,
                                          !.pos = 0, !.data = << >>]
                    /\ fsys' = fsys
               ELSE /\ rst' = [rst EXCEPT !.pc = "lchown", !.i = 0, !.pos = 0,
                                          !.data = << >>,
                                          !.trace = << Event(IF a.Type = "Directory"
                                                             THEN "MkdirAll"
                                                             ELSE "Symlink", 0) >>]
                    /\ fsys' = IF fsys[a.Path].kind = "none"
                               THEN [fsys EXCEPT ![a.Path].kind = a.Type]
                               ELSE fsys
    /\ last' = [op |-> "restore"]
    /\ UNCHANGED <<nb, up, blobs, meta, cursor, placed, stored, calls, cmd, readerVars, lockVars, snap>>

\* os.OpenFile(path, O_CREATE|O_WRONLY, mode); ok: the system call succeeds.
ROpenOutput(ok) ==
    /\ rst.pc = "open"
    /\ LET r == [rst EXCEPT !.trace = Append(@, Event("OpenOutput", 0))]
       IN IF ok /\ fsys[CurItem.Path].kind \in {"none", "File"}
          THEN /\ rst' = [r EXCEPT !.pc = "load"]
               /\ fsys' = [fsys EXCEPT ![CurItem.Path].kind = "File"]
          ELSE /\ rst' = ArchiveFails(r, "OpenError", 0)
               /\ fsys' = fsys
    /\ last' = [op |-> "restore"]
    /\ UNCHANGED <<nb, up, blobs, meta, cursor, placed, stored, calls, cmd, readerVars, lockVars, snap>>

\* The head of the chunk loop, LoadChunk(i): indexOfChunk(arc, i) and loadChunk.
RLoadChunk ==
    /\ rst.pc = "load"
    /\ IF rst.i >= Len(CurItem.Chunks)
       THEN rst' = [rst EXCEPT !.pc = "sync"]
       ELSE LET ix == indexOfChunk(CurItem, rst.i)
                r  == [rst EXCEPT !.trace = Append(@, Event("LoadChunk", rst.i))]
            IN IF ix.err # "nil"
               THEN rst' = ArchiveFails(r, ix.err, rst.i)
               ELSE LET c == loadChunk(blobs, up, nb, CurItem.Chunks[ix.idx])
                    IN IF c.err # "nil"
                       THEN rst' = ArchiveFails(r, c.err, 0)
                       ELSE rst' = [r EXCEPT !.pc = "write", !.data = c.data]
    /\ last' = [op |-> "restore"]
    /\ UNCHANGED <<nb, up, blobs, meta, cursor, placed, stored, calls, cmd, readerVars, lockVars,
                   snap, fsys>>

\* f.Write(data); ok: the system call succeeds.
RWriteChunk(ok) ==
    /\ rst.pc = "write"
    /\ LET r == [rst EXCEPT !.trace = Append(@, Event("WriteChunk", rst.i))]
       IN IF ok
          THEN /\ fsys' = [fsys EXCEPT ![CurItem.Path].data = WriteAt(@, rst.pos, rst.data)]
               /\ rst' = [r EXCEPT !.pc = "progress", !.pos = @ + Len(rst.data)]
          ELSE /\ rst' = ArchiveFails(r, "WriteError", 0)
               /\ fsys' = fsys
    /\ last' = [op |-> "restore"]
    /\ UNCHANGED <<nb, up, blobs, meta, cursor, placed, stored, calls, cmd, readerVars, lockVars, snap>>

\* progress <- prog, received by the caller of DecodeSnapshot; then i++.
RProgress ==
    /\ rst.pc = "progress"
    /\ rst' = [rst EXCEPT !.pc = "load", !.received = @ + 1, !.i = @ + 1, !.data = << >>]
    /\ last' = [op |-> "restore"]
    /\ UNCHANGED <<nb, up, blobs, meta, cursor, placed, stored, calls, cmd, readerVars, lockVars,
                   snap, fsys>>

\* f.Sync() and f.Close(), their errors ignored.
RSyncClose ==
    /\ rst.pc \in {"sync", "close"}
    /\ rst' = IF rst.pc = "sync"
              THEN [rst EXCEPT !.pc = "close", !.trace = Append(@, Event("Sync", 0))]
              ELSE [rst EXCEPT !.pc = "chtimes", !.trace = Append(@, Event("Close", 0))]
    /\ last' = [op |-> "restore"]
    /\ UNCHANGED <<nb, up, blobs, meta, cursor, placed, stored, calls, cmd, readerVars, lockVars,
                   snap, fsys>>

\* os.Chtimes(path, arc.ModTime, arc.ModTime)
RChtimes(ok) ==
    /\ rst.pc = "chtimes"
    /\ LET r == [rst EXCEPT !.trace = Append(@, Event("Chtimes", 0))]
       IN IF ok
          THEN /\ rst' = [r EXCEPT !.pc = "lchown"]
               /\ fsys' = [fsys EXCEPT ![CurItem.Path].mtime = TRUE]
          ELSE /\ rst' = ArchiveFails(r, "ChtimesError", 0)
               /\ fsys' = fsys
    /\ last' = [op |-> "restore"]
    /\ UNCHANGED <<nb, up, blobs, meta, cursor, placed, stored, calls, cmd, readerVars, lockVars, snap>>

\* return os.Lchown(path, uid, gid): the end of DecodeArchive.
RLchown(ok) ==
    /\ rst.pc = "lchown"
    /\ LET r == [rst EXCEPT !.trace = Append(@, Event("Lchown", 0))]
       IN IF ok
          THEN /\ rst' = [r EXCEPT !.pc = "next", !.item = @ + 1,
                                   !.results = Append(@, [item |-> rst.item, err |-> "nil",
                                                          num |-> 0])]
               /\ fsys' = [fsys EXCEPT ![CurItem.Path].owner = TRUE]
          ELSE /\ rst' = ArchiveFails(r, "LchownError", 0)
               /\ fsys' = fsys
    /\ last' = [op |-> "restore"]
    /\ UNCHANGED <<nb, up, blobs, meta, cursor, placed, stored, calls, cmd, readerVars, lockVars, snap>>

\* A backend stops answering / answers again while the restore runs.
RestoreBackendDown(b) == rst.pc \notin {"panic", "closed"} /\ BackendDown(b)

RestoreBackendUp(b) == rst.pc \notin {"panic", "closed"} /\ BackendUp(b)

----------------------------------------------------------------------------
\* State machine of the restorer: a snapshot of 1 .. MaxItems entries whose
\* chunks were stored on ReadBackends backends with failure tolerance 1, is
\* restored by DecodeSnapshot while backends fail and system calls fail.

MaxItems == 2        \* entries of the snapshot 1 .. MaxItems

\* The chunk lists of a File entry, as lists of chunk numbers: 0 .. k-1 in
\* order, in reverse order, and in reverse order with number m replaced by
\* number k, so that no chunk has number m.
NumLists ==
    UNION {{UpTo(k - 1), Reverse(UpTo(k - 1))} \cup
           {Reverse([j \in 1..k |-> IF j - 1 = m THEN k ELSE j - 1]) : m \in 0..(k - 1)} :
           k \in 1..MaxChunks}

\* The bytes an existing file at the path of a File entry holds before the restore.
OldBytes == [k \in 1..((MaxChunks + 1) * MaxLen + 1) |-> 0]

InitRestore ==
    \E n \in 1..MaxItems : \E types \in [1..n -> {"File", "Directory", "SymLink"}] :
    \E nums \in NumLists : \E pre \in BOOLEAN :
        LET N   == ReadBackends
            cfg == store(N, 1, TRUE)
            cs  == FileChunks([k \in 1..(MaxChunks + 1) |-> MaxLen],
                              UintSmall(cfg.dataParts), cfg.parityParts)
            st  == StoreAll(cs, 1, Backends(N), N,
                            [blobs |-> [b \in Backends(N) |-> NoBlobs], cursor |-> 0,
                             placed |-> [b \in Backends(N) |-> 0], stored |-> {},
                             made |-> {}])
        IN /\ nb = N
           /\ up = Backends(N)
           /\ blobs = st.blobs
           /\ meta = WithChunkFolders([b \in Backends(N) |-> NoMeta], st.made)
           /\ cursor = st.cursor
           /\ placed = st.placed
           /\ stored = st.stored
           /\ calls = Len(cs)
           /\ cmd = [state |-> "started", tolerance |-> 1, dataParts |-> cfg.dataParts,
                     parityParts |-> cfg.parityParts, gz |-> FALSE, aes |-> FALSE]
           /\ last = NoOp
           /\ arc = NoArchive
           /\ cache = NoCache
           /\ mutex = FALSE
           /\ rd = IdleRead
           /\ tasks = EmptyBag
           /\ snap = [j \in 1..n |->
                         [Path |-> j, Type |-> types[j],
                          Chunks |-> IF types[j] = "File"
                                     THEN [x \in 1..Len(nums) |-> cs[nums[x] + 1]]
                                     ELSE << >>]]
           /\ fsys = [j \in 1..n |->
                         IF pre /\ types[j] = "File"
                         THEN [NoFile EXCEPT !.kind = "File", !.data = OldBytes]
                         ELSE NoFile]
           /\ rst = IdleRestore
           /\ callers = NoCallers
           /\ loads = NoLoads

NextRestore ==
    \/ RDecodeSnapshot
    \/ RNextItem
    \/ \E ok \in BOOLEAN : ROpenOutput(ok)
    \/ RLoadChunk
    \/ \E ok \in BOOLEAN : RWriteChunk(ok)
    \/ RProgress
    \/ RSyncClose
    \/ \E ok \in BOOLEAN : RChtimes(ok)
    \/ \E ok \in BOOLEAN : RLchown(ok)
    \/ \E b \in Backends(nb) : RestoreBackendDown(b)
    \/ \E b \in Backends(nb) : RestoreBackendUp(b)

SpecRestore == InitRestore /\ [][NextRestore]_vars

----------------------------------------------------------------------------
\* Claims checked under SpecRestore.

\* Entry a has a chunk numbered m; the plaintext of that chunk.
HasNum(a, m) == \E j \in 1..Len(a.Chunks) : a.Chunks[j].Num = m

PlainByNum(a, m) == PlainOf(a.Chunks[CHOOSE j \in 1..Len(a.Chunks) : a.Chunks[j].Num = m])

\* The plaintexts of the chunks numbered m, m+1, .. of entry a, up to the
\* first number below len(chunks) that no chunk has.
RECURSIVE BytesByNum(_, _)
BytesByNum(a, m) ==
    IF m >= Len(a.Chunks) \/ ~HasNum(a, m) THEN << >>
    ELSE PlainByNum(a, m) \o BytesByNum(a, m + 1)

\* The chunk numbers that DecodeArchive looks up in entry a and that no chunk has.
MissingNums(a) == {m \in 0..(Len(a.Chunks) - 1) : ~HasNum(a, m)}

\* The errors of the system calls and of the chunk loads of DecodeArchive.
RestoreIoErrors == {"OpenError", "WriteError"} \cup LoadErrors

\* The bytes of the output file of entry a after every chunk was written:
\* B on a new file, B over the head of the old bytes on a file that existed.
Restored(a, B) == fsys[a.Path].data \in {B, WriteAt(OldBytes, 0, B)}

\* C12: decode_archive of a File entry with n chunks writes the plaintexts in
\* the order num = 0 .. n-1 whatever the order of the chunk list, so a restore
\* that succeeds leaves the bytes B of the chunks by number in the file; when
\* some num in 0 .. n-1 has no chunk the restore does not succeed: it returns
\* ChunkError for the smallest such num, after the chunks before it were
\* written, unless a load or a system call failed before.
C12_RestoreInNumOrder ==
    \A k \in 1..Len(rst.results) :
        LET r == rst.results[k]
            a == snap[r.item]
        IN a.Type = "File" =>
              /\ r.err = "nil" =>
                    /\ MissingNums(a) = {}
                    /\ Restored(a, BytesByNum(a, 0))
              /\ MissingNums(a) # {} =>
                    /\ r.err \in {"ChunkError"} \cup RestoreIoErrors
                    /\ r.err = "ChunkError" =>
                          /\ r.num = MinOf(MissingNums(a))
                          /\ Restored(a, BytesByNum(a, 0))
              /\ r.err = "ChunkError" => MissingNums(a) # {}

\* C12 witness: an entry whose chunk list is stored in reverse order was
\* restored completely.
C12_Witness ==
    \E k \in 1..Len(rst.results) :
        LET a == snap[rst.results[k].item]
        IN /\ rst.results[k].err = "nil"
           /\ a.Type = "File"
           /\ Len(a.Chunks) >= 2
           /\ a.Chunks[1].Num > a.Chunks[2].Num
           /\ fsys[a.Path].data = BytesByNum(a, 0)
           /\ Len(fsys[a.Path].data) >= 2

\* C12 witness (second case): ChunkError for a missing number after the
\* chunk before it was written.
C12_WitnessMissing ==
    \E k \in 1..Len(rst.results) :
        /\ rst.results[k].err = "ChunkError"
        /\ rst.results[k].num >= 1
        /\ Len(fsys[snap[rst.results[k].item].Path].data) >= 1


\* The calls of a complete restore of a File entry with n chunks, in order.
ExpectedTrace(n) ==
    << Event("OpenOutput", 0) >> \o
    [k \in 1..(2 * n) |-> IF k % 2 = 1 THEN Event("LoadChunk", (k - 1) \div 2)
                          ELSE Event("WriteChunk", (k - 2) \div 2)] \o
    << Event("Sync", 0), Event("Close", 0), Event("Chtimes", 0), Event("Lchown", 0) >>

IsPrefix(t, e) == Len(t) <= Len(e) /\ t = SubSeq(e, 1, Len(t))

\* The entry the calls in rst.trace belong to (0: none yet).
TraceItem == IF rst.pc \in {"next", "closed"} THEN rst.item - 1 ELSE rst.item

\* The plaintexts of the chunks numbered 0 .. w-1 of entry a.
RECURSIVE BytesBelow(_, _)
BytesBelow(a, w) == IF w = 0 THEN << >> ELSE BytesBelow(a, w - 1) \o PlainByNum(a, w - 1)

\* C13: the calls of the restore of a File entry are a prefix of OpenOutput,
\* LoadChunk(0), WriteChunk(0), LoadChunk(1), .., Sync, Close, Chtimes, Lchown;
\* the entry is done after all of them. When OpenOutput, a LoadChunk(i) or a
\* WriteChunk(i) fails, that call is the last one made (no later LoadChunk or
\* WriteChunk, no Chtimes, no Lchown), its error is the result, and the file
\* holds the bytes of the chunks written before.
C13_RestoreOrderAndShortCircuit ==
    (TraceItem \in 1..Len(snap) /\ snap[TraceItem].Type = "File") =>
        LET a == snap[TraceItem]
            t == rst.trace
            r == rst.results[Len(rst.results)]
            writes == Cardinality({k \in 1..Len(t) : t[k].ev = "WriteChunk"})
        IN /\ IsPrefix(t, ExpectedTrace(Len(a.Chunks)))
           /\ rst.pc \in {"next", "closed"} =>
                 /\ t = ExpectedTrace(Len(a.Chunks))
                 /\ r = [item |-> TraceItem, err |-> "nil", num |-> 0]
                 /\ fsys[a.Path].mtime /\ fsys[a.Path].owner
           /\ rst.pc = "panic" =>
                 /\ r.item = TraceItem
                 /\ r.err # "nil"
                 /\ r.err = "OpenError" <=> t[Len(t)].ev = "OpenOutput"
                 /\ r.err \in {"ChunkError"} \cup LoadErrors <=> t[Len(t)].ev = "LoadChunk"
                 /\ r.err = "WriteError" <=> t[Len(t)].ev = "WriteChunk"
                 /\ r.err = "ChtimesError" <=> t[Len(t)].ev = "Chtimes"
                 /\ r.err = "LchownError" <=> t[Len(t)].ev = "Lchown"
                 /\ r.err \in {"OpenError", "WriteError", "ChunkError"} \cup LoadErrors =>
                       /\ ~fsys[a.Path].mtime /\ ~fsys[a.Path].owner
                       /\ Restored(a, BytesBelow(a, IF r.err = "WriteError"
                                                    THEN writes - 1 ELSE writes))
           /\ rst.pc \notin {"next", "closed", "panic"} =>
                 \A k \in 1..Len(rst.results) : rst.results[k].item < TraceItem

\* C13 witness: the write of the second chunk failed; the first chunk's
\* bytes are in the file and the restore has ended.
C13_Witness ==
    /\ rst.pc = "panic"
    /\ rst.results[Len(rst.results)].err = "WriteError"
    /\ rst.trace[Len(rst.trace)] = Event("WriteChunk", 1)
    /\ fsys[CurItem.Path].data = BytesBelow(CurItem, 1)
    /\ Len(fsys[CurItem.Path].data) >= 1

\* C13 witness (second case): a load failed after a chunk was written.
C13_WitnessLoad ==
    /\ rst.pc = "panic"
    /\ rst.results[Len(rst.results)].err \in LoadErrors
    /\ rst.trace[Len(rst.trace)] = Event("LoadChunk", 1)


\* C14: DecodeSnapshot restores the entries in snapshot order and closes the
\* progress channel after the last one; when restoring an entry fails, the
\* caller receives that error as a value, the progress sequence ends, and no
\* later entry is restored.
C14_SnapshotErrorDelivered ==
    /\ \A k \in 1..Len(rst.results) : rst.results[k].item = k
    /\ rst.closed => /\ Len(rst.results) = Len(snap)
                     /\ \A k \in 1..Len(rst.results) : rst.results[k].err = "nil"
    /\ \A k \in 1..Len(rst.results) :
           rst.results[k].err # "nil" =>
               /\ k = Len(rst.results)
               /\ rst.pc # "panic"
               /\ rst.ret = rst.results[k].err
               /\ rst.closed

\* C14, the part the code keeps: the entries are restored in snapshot order,
\* the channel is closed after the last one, and after a failing entry no
\* later entry is restored.
C14_SnapshotOrder ==
    /\ \A k \in 1..Len(rst.results) : rst.results[k].item = k
    /\ rst.closed => /\ Len(rst.results) = Len(snap)
                     /\ \A k \in 1..Len(rst.results) : rst.results[k].err = "nil"
    /\ \A k \in 1..Len(rst.results) :
           rst.results[k].err # "nil" => k = Len(rst.results) /\ rst.item = k

----------------------------------------------------------------------------
\* Further claims checked under SpecRead.

\* A call is inside the critical section: between its mutex.Lock() and its
\* mutex.Unlock().
InCriticalSection ==
    \/ \E g \in DOMAIN callers : callers[g].pc \in {"locked", "load", "insert"}
    \/ rd.pc \in {"dataLocked", "dataLoad", "dataInsert"}

\* C15: the cache mutex is held only inside the critical section: in no state
\* is the mutex locked while no call is between its Lock and its Unlock, also
\* after a call that returned an error (states after the panic of ReadArchive
\* are left out: the process is ending).
C15_MutexFreeOutsideCriticalSection == rd.pc # "panic" => (mutex => InCriticalSection)


----------------------------------------------------------------------------
\* The archive reader with ReadArchive as its only user call: the mutex is
\* locked by the user's readArchiveChunk calls and by the read-ahead
\* goroutines alone.

NextPrefetch ==
    \/ \E offset \in 0..(MaxChunks * MaxLen), size \in 0..MaxSize :
           ReadArchiveStart(offset, size)
    \/ ReadArchiveStep
    \/ \E part \in BagToSet(tasks) : ReadAhead(part)
    \/ \E g \in 0..MaxCallers : CallLock(g)
    \/ \E g \in 0..MaxCallers : CallLookup(g)
    \/ \E g \in 0..MaxCallers : CallLoad(g)
    \/ \E g \in 0..MaxCallers : CallInsert(g)
    \/ \E g \in 1..MaxCallers : CallEnd(g)
    \/ \E b \in Backends(nb) : ReaderBackendDown(b)
    \/ \E b \in Backends(nb) : ReaderBackendUp(b)

SpecPrefetch == InitRead /\ [][NextPrefetch]_vars

\* C16: read-ahead does not affect the user's reads: whether the prefetches
\* started by earlier read_archive calls succeeded or failed, a read_archive
\* call whose chunks are loadable (every backend answers) is not kept waiting
\* in mutex.Lock() when no call is inside the critical section, so it goes on
\* to return its data.
C16_PrefetchNeverBlocksRead ==
    (/\ rd.pc = "call"
     /\ 0 \in DOMAIN callers
     /\ callers[0].pc = "lock"
     /\ up = Backends(nb)
     /\ ~InCriticalSection) => LockGranted(mutex)


----------------------------------------------------------------------------
\* State machine of the chunk cache: on a File archive of chunks of MaxLen
\* bytes, goroutines (ReadArchive calls and their read-ahead tasks) call
\* readArchiveChunk for any chunk number and the user calls DecodeArchiveData,
\* every call statement by statement, with outages of all backends and
\* damaged shard blobs in between.

CacheCallers == 1    \* goroutines 1 .. CacheCallers call readArchiveChunk in this specification

\* One byte of a shard blob changes while the reader runs.
ReaderAlterShard(b, k) == rd.pc # "panic" /\ AlterShard(b, k, 1)

\* The chunk records of a file of k chunks that all hold the same bytes.
SameChunks(k, d, p) ==
    [j \in 1..k |-> EncodeChunk(FileBytes(0, MaxLen), FALSE, FALSE, d, p, j - 1)]

\* The reader before its first call, on a File archive of MaxChunks chunks of
\* MaxLen bytes that hold the same bytes or the bytes of a file, stored on
\* ReadBackends backends with failure tolerance 1.
InitCache ==
    \E same \in BOOLEAN :
        LET cfg == store(ReadBackends, 1, TRUE)
            d   == UintSmall(cfg.dataParts)
        IN ReaderStartsOn(IF same THEN SameChunks(MaxChunks, d, cfg.parityParts)
                          ELSE FileChunks([j \in 1..MaxChunks |-> MaxLen], d,
                                          cfg.parityParts),
                          FALSE)

NextCache ==
    \/ \E g \in 1..CacheCallers : \E part \in 0..(MaxChunks - 1) : CallGo(g, part)
    \/ \E g \in 1..CacheCallers : CallLock(g)
    \/ \E g \in 1..CacheCallers : CallLookup(g)
    \/ \E g \in 1..CacheCallers : CallLoad(g)
    \/ \E g \in 1..CacheCallers : CallInsert(g)
    \/ \E g \in 1..CacheCallers : CallEnd(g)
    \/ DecodeArchiveDataStart
    \/ DecodeArchiveDataStep
    \/ Outage
    \/ OutageEnds
    \/ \E b \in Backends(nb) : \E k \in DOMAIN blobs[b] : ReaderAlterShard(b, k)

SpecCache == InitCache /\ [][NextCache]_vars


\* The chunk records of the archive with sha_sum s.
ChunksWithSum(s) == {arc.Chunks[j] : j \in {x \in 1..Len(arc.Chunks) : arc.Chunks[x].ShaSum = s}}

\* Every cache entry holds bytes that pass the SHA-256 check of a chunk with
\* that sha_sum.
CacheSound ==
    \A s \in DOMAIN cache :
        \E c \in ChunksWithSum(s) : sha256hex(cache[s]) = c.DecryptedShaSum

\* A call holds the bytes b that it fetched for sha_sum s and is about to
\* insert them.
Fetched(s, b) ==
    \/ \E g \in DOMAIN callers : /\ callers[g].pc = "insert"
                                 /\ arc.Chunks[callers[g].idx].ShaSum = s
                                 /\ callers[g].dat = b
    \/ /\ rd.pc = "dataInsert"
       /\ arc.Chunks[indexOfChunk(arc, rd.neededPart).idx].ShaSum = s
       /\ rd.final = b

\* A step keeps every cache entry as it is, and an entry it adds holds the
\* bytes a call fetched for that sha_sum.
CacheGrowsByLoads ==
    /\ \A s \in DOMAIN cache : s \in DOMAIN cache' /\ cache'[s] = cache[s]
    /\ \A s \in DOMAIN cache' \ DOMAIN cache : Fetched(s, cache'[s])

\* A call comes to hold fetched bytes only by a step in which loadChunk
\* returns them without error for its chunk, in the state the step starts
\* from; a step in which the load of a call fails leaves the cache as it is.
FetchedByLoads ==
    /\ \A g \in DOMAIN callers' :
           (/\ callers'[g].pc = "insert"
            /\ (g \notin DOMAIN callers \/ callers[g].pc # "insert")) =>
               LET r == loadChunk(blobs, up, nb, arc.Chunks[callers'[g].idx])
               IN r.err = "nil" /\ callers'[g].dat = r.data
    /\ (rd'.pc = "dataInsert" /\ rd.pc # "dataInsert") =>
           LET r == loadChunk(blobs, up, nb, arc.Chunks[indexOfChunk(arc, rd.neededPart).idx])
           IN r.err = "nil" /\ rd'.final = r.data
    /\ \A g \in DOMAIN callers :
           (callers[g].pc = "load" /\ g \in DOMAIN callers' /\ callers'[g].pc = "done") =>
               cache' = cache
    /\ (rd.pc = "dataLoad" /\ rd'.pc = "dataDone") => cache' = cache

\* C17: each entry of the chunk cache was inserted after a successful decode:
\* its bytes are a plaintext the read transform returned without error (SHA-256
\* check passed) for a chunk with that sha_sum; a load that fails inserts and
\* changes nothing; entries are never removed or overwritten.
C17_CacheHoldsDecodedPlaintexts ==
    [](CacheSound) /\ [][CacheGrowsByLoads /\ FetchedByLoads]_vars

\* C17 witness: DecodeArchiveData has cached a chunk and has then failed to
\* load the next one, which is not in the cache.
C17_Witness ==
    /\ rd.pc = "dataDone"
    /\ rd.err \in LoadErrors
    /\ Cardinality(DOMAIN cache) >= 1
    /\ \E j \in 1..Len(arc.Chunks) : arc.Chunks[j].ShaSum \notin DOMAIN cache

\* C17 witness (second case): a chunk with a damaged shard failed the SHA-256
\* check and was not cached.
C17_WitnessCheckSum ==
    /\ rd.pc = "dataDone"
    /\ rd.err = "CheckSumError"
    /\ \E j \in 1..Len(arc.Chunks) : arc.Chunks[j].ShaSum \notin DOMAIN cache

----------------------------------------------------------------------------
\* BackendManager.StoreChunk aborts at the first shard write that fails.

\* The index of the last shard the call sent to a backend.
LastSent == Len(last.targets) - 1

\* The path of shard j of the chunk of the call.
PathOf(j) == ShardPath(last.chunk.ShaSum, j, last.chunk.DataParts)

\* The write of a shard failed: the upload did not go through, and the call
\* returned the error or the process panicked on the nil Entry.
ShardWriteFailed ==
    last.op = "StoreChunk" /\ last.err \notin {"nil", "panic: index out of range"}

\* What a failed write leaves behind: the shards before the failed one are
\* stored where the call put them, no later shard reached a backend, and the
\* cursor stays on the backend of the failed shard.
FailedWriteLeaves ==
    /\ LastSent \in 0..(NumShards(last.chunk) - 1)
    /\ last.targets[LastSent + 1] \notin up
    /\ cursor = last.targets[LastSent + 1]
    /\ \A j \in 0..(LastSent - 1) :
          /\ PathOf(j) \in DOMAIN blobs[last.targets[j + 1]]
          /\ blobs[last.targets[j + 1]][PathOf(j)] = last.chunk.Data[j]
    /\ \A b \in Backends(nb) : \A j \in LastSent..(NumShards(last.chunk) - 1) :
          IF PathOf(j) \in DOMAIN last.before[b]
          THEN /\ PathOf(j) \in DOMAIN blobs[b]
               /\ blobs[b][PathOf(j)] = last.before[b][PathOf(j)]
          ELSE PathOf(j) \notin DOMAIN blobs[b]

\* C18 (as claimed): when the write of shard i fails StoreChunk returns that
\* error with size 0, no shard after i reaches a backend, shards 0..i-1 are
\* stored where the call put them, and the cursor stays on the backend of
\* shard i; when every write succeeds, skipped writes included, it returns
\* chunk.Size.
C18_StoreChunkFailFast ==
    /\ ShardWriteFailed =>
        /\ last.err = "UploadError"
        /\ last.size = 0
        /\ FailedWriteLeaves
    /\ (last.op = "StoreChunk" /\ last.err = "nil") =>
        /\ last.size = last.chunk.Size
        /\ Len(last.targets) = NumShards(last.chunk)

\* The part of C18 the code keeps: however a failed write ends, by the
\* returned error or by the panic, it leaves the backends and the cursor as
\* the claim says; a call that returns an error returns size 0, and a call
\* whose writes all succeed returns chunk.Size.
C18_FailedWriteKeepsEarlierShards ==
    /\ ShardWriteFailed => FailedWriteLeaves
    /\ (last.op = "StoreChunk" /\ last.err = "UploadError") => last.size = 0
    /\ (last.op = "StoreChunk" /\ last.err = "nil") =>
        /\ last.size = last.chunk.Size
        /\ Len(last.targets) = NumShards(last.chunk)

\* The write of a later shard failed after the first shard was written by the
\* same call.
C18_Witness ==
    /\ ShardWriteFailed
    /\ LastSent >= 1
    /\ last.sizes[1] > 0
    /\ PathOf(0) \notin DOMAIN last.before[last.targets[1]]

\* The process panicked in the write of a shard.
C18_WitnessPanic ==
    /\ last.op = "StoreChunk"
    /\ last.err = "panic: nil pointer dereference"
    /\ cmd.state = "panic"

\* A write failed with shards still to send.
C18_WitnessNotSent == ShardWriteFailed /\ LastSent + 1 < NumShards(last.chunk)

\* A call that succeeded with a write skipped as already present.
C18_WitnessSkipped ==
    /\ last.op = "StoreChunk"
    /\ last.err = "nil"
    /\ \E j \in 1..Len(last.sizes) : last.sizes[j] = 0 /\ Len(last.chunk.Data[j - 1]) > 0

----------------------------------------------------------------------------
\* The names of the shard blobs.

\* The names of all shard blobs held by the backends.
BlobNames == UNION {DOMAIN blobs[b] : b \in Backends(nb)}

\* The names BackendManager.LoadChunk asks the backends for when loadChunk
\* fetches the shards of the chunk.
AskedNames(chunk) ==
    {ShardPath(chunk.ShaSum, i, chunk.DataParts) :
        i \in 0..(IF chunk.ParityParts > 0
                  THEN chunk.DataParts + chunk.ParityParts - 1 ELSE 0)}

\* C19 (as claimed): every shard blob written by StoreChunk and every shard
\* loadChunk asks for is named <sha_sum>.<part>_<total_parts> with
\* 0 <= part < total_parts, parity shards included, and shard i is asked for
\* under the name it was stored under.
C19_ShardPartBelowTotalParts ==
    /\ \A k \in BlobNames : k.part >= 0 /\ k.part < k.total
    /\ \A s \in stored :
          /\ \A k \in AskedNames(s.chunk) : k.part >= 0 /\ k.part < k.total
          /\ \A i \in DOMAIN s.chunk.Data :
                ShardPath(s.chunk.ShaSum, i, s.chunk.DataParts) \in AskedNames(s.chunk)

\* The shard names of stored chunks are the names loadChunk asks for.
C19_StoreAndLoadNamesAgree ==
    \A s \in stored : \A i \in DOMAIN s.chunk.Data :
        /\ ShardPath(s.chunk.ShaSum, i, s.chunk.DataParts) \in AskedNames(s.chunk)
        /\ ShardPath(s.chunk.ShaSum, i, s.chunk.DataParts)
               \in DOMAIN blobs[s.targets[i + 1]]

----------------------------------------------------------------------------
\* The DataReconstructionError of loadChunk.

ReconstructionFailed ==
    last.op = "loadChunk" /\ last.res.err = "DataReconstructionError"

\* C20 (as claimed): loadChunk returns DataReconstructionError only after all
\* DataParts + ParityParts shards were asked for; BlocksFound is then the
\* number of shards loaded, it is below DataParts, and FailedBackends is
\* DataParts - BlocksFound with no wraparound, between 0 and DataParts.
C20_ReconstructionErrorCounts ==
    ReconstructionFailed =>
        /\ last.res.asked = last.chunk.DataParts + last.chunk.ParityParts
        /\ last.res.blocksFound = Cardinality(Loadable(last.chunk))
        /\ last.res.blocksFound < last.chunk.DataParts
        /\ UintSmall(last.res.failedBackends)
               = last.chunk.DataParts - last.res.blocksFound
        /\ UintSmall(last.res.failedBackends) \in 0..last.chunk.DataParts

\* The part of C20 that holds: the error comes after every shard was asked
\* for, and BlocksFound counts the shards that loaded.
C20_ErrorAfterAllShards ==
    ReconstructionFailed =>
        /\ last.res.asked = last.chunk.DataParts + last.chunk.ParityParts
        /\ last.res.blocksFound = Cardinality(Loadable(last.chunk))

\* FailedBackends of a DataReconstructionError never wraps around.
C20_FailedBackendsInRange ==
    ReconstructionFailed =>
        UintSmall(last.res.failedBackends) \in 0..last.chunk.DataParts

----------------------------------------------------------------------------
\* State machine of the cache mutex: goroutines (user reads and read-ahead
\* tasks) call readArchiveChunk on one File archive of MaxChunks chunks at the
\* same time, for chunk numbers the archive has; each call runs statement by
\* statement, with outages of all backends in between.

\* The cache mutex is checked on the archives of the chunk cache.
InitLock == InitCache

NextLock ==
    \/ \E g \in 1..MaxCallers : \E part \in 0..(MaxChunks - 1) : CallGo(g, part)
    \/ \E g \in 1..MaxCallers : CallWait(g)
    \/ \E g \in 1..MaxCallers : CallLock(g)
    \/ \E g \in 1..MaxCallers : CallLookup(g)
    \/ \E g \in 1..MaxCallers : CallLoad(g)
    \/ \E g \in 1..MaxCallers : CallInsert(g)
    \/ \E g \in 1..MaxCallers : CallEnd(g)
    \/ Outage
    \/ OutageEnds

SpecLock == InitLock /\ [][NextLock]_vars

\* C21: of the readArchiveChunk calls that run at the same time, in any
\* interleaving, no two load a chunk of the same sha_sum successfully: a
\* sha_sum is loaded from the backends at most once, a cache entry comes from
\* that one load, and every other call that returns for that sha_sum returns
\* the cached bytes without a load of its own.
C21_LoadedAtMostOnce ==
    /\ \A s \in DOMAIN loads : loads[s] <= 1
    /\ \A s \in DOMAIN cache : Count(loads, s) = 1
    /\ \A g \in DOMAIN callers :
          (callers[g].pc = "done" /\ callers[g].err = "nil" /\ ~callers[g].loaded) =>
              /\ ChunkOf(g).ShaSum \in DOMAIN cache
              /\ callers[g].dat = cache[ChunkOf(g).ShaSum]
    /\ \A g, h \in DOMAIN callers :
          (/\ g # h
           /\ callers[g].pc \in {"insert", "done"}
           /\ callers[h].pc \in {"insert", "done"}
           /\ callers[g].loaded
           /\ callers[h].loaded) => ChunkOf(g).ShaSum # ChunkOf(h).ShaSum

\* C21 witness: two calls for chunks of different numbers with the same
\* sha_sum have returned; one loaded the chunk, the other waited for the mutex
\* and was served the same bytes from the cache.
C21_Witness ==
    \E g, h \in DOMAIN callers :
        /\ g # h
        /\ callers[g].pc = "done" /\ callers[g].err = "nil" /\ callers[g].loaded
        /\ callers[h].pc = "done" /\ callers[h].err = "nil" /\ ~callers[h].loaded
        /\ callers[h].waited
        /\ callers[g].part # callers[h].part
        /\ ChunkOf(g).ShaSum = ChunkOf(h).ShaSum
        /\ callers[h].dat = callers[g].dat
        /\ Len(callers[h].dat) > 0

\* Two calls for the same chunk number, one served from the cache.
C21_WitnessSamePart ==
    \E g, h \in DOMAIN callers :
        /\ g # h
        /\ callers[g].pc = "done" /\ callers[g].loaded
        /\ callers[h].pc = "done" /\ callers[h].err = "nil" /\ ~callers[h].loaded
        /\ callers[h].waited
        /\ callers[g].part = callers[h].part

====
